---- MODULE Spec2Model ----
(***************************************************************************)
(* Model of the authentication pipeline and token-issuance engine of       *)
(* punqy/core: the OAuth grant engine (oauth.GrantAccessToken), the OAuth  *)
(* authenticator (oauthAuthenticator.Authorize) and the firewall           *)
(* middleware (firewall.Handle) behind the router's handler.               *)
(*                                                                         *)
(* The grant engine is modelled at the granularity of its storage calls:   *)
(* every call of a storage interface is one atomic step of the caller, so  *)
(* that concurrent callers interleave between any two storage calls.       *)
(* Storage collaborators (client, user, token stores) are the environment: *)
(* a lookup finds what the store holds, and any call may fail with an      *)
(* internal storage error.                                                 *)
(***************************************************************************)
EXTENDS Integers, Sequences, FiniteSets, TLC

(***************************************************************************)
(* Bounds of the model.                                                    *)
(***************************************************************************)
MaxCallers == 2      \* concurrent callers of GrantAccessToken
MaxCalls == 2        \* GrantAccessToken calls in one behaviour
MaxTime == 2         \* clock ticks (minutes) in one behaviour

Callers == 1..MaxCallers

(***************************************************************************)
(* Configuration of the engine (constructor arguments of NewOAuth).        *)
(***************************************************************************)
accessTokenTTL == 1
refreshTokenTTL == 2

(***************************************************************************)
(* Errors (errors.go).  An error built by wrapErr carries the Go type of   *)
(* the wrapped value, its status code and its message; the message is a    *)
(* sequence of words.  An error that does not come from errors.go (what a  *)
(* storage collaborator returns) has Type "external".                      *)
(***************************************************************************)
NoErr == [Type |-> "nil", Code |-> 0, Message |-> <<>>]

JoinStrings(def, strs) == IF Len(strs) < 1 THEN <<def>> ELSE strs

wrapErr(type, code, message) == [Type |-> type, Code |-> code, Message |-> message]

AccessDeniedErr(message) == wrapErr("AccessDenied", 403, JoinStrings("Access denied", message))

\* Faulty variant: invalid credentials classified with the Unauthorized family.
InvalidCredentialsErrUnauthorized(message) == wrapErr("Unauthorized", 401, JoinStrings("Invalid credentials", message))

InvalidCredentialsErr(message) == wrapErr("AccessDenied", 403, JoinStrings("Invalid credentials", message))

UnauthorizedErr(message) == wrapErr("Unauthorized", 401, JoinStrings("Unauthorized", message))

AuthorizationRequiredErr(message) == wrapErr("Unauthorized", 401, JoinStrings("Authorization required", message))

AuthorizationExpiredErr(message) == wrapErr("Unauthorized", 401, JoinStrings("Authorization expired", message))

InvalidGrantErr(message) == wrapErr("Unauthorized", 401, JoinStrings("Invalid grant", message))

UnknownGrantTypeErr(message) == wrapErr("Unauthorized", 401, JoinStrings("Unknown grant type", message))

\* What the storage collaborators return on failure.
ErrNoRows == [Type |-> "external", Code |-> 0, Message |-> <<"sql: no rows in result set">>]
ErrStorage == [Type |-> "external", Code |-> 0, Message |-> <<"dial tcp: connection refused">>]
ErrHash == [Type |-> "external", Code |-> 0, Message |-> <<"crypto/bcrypt: hashedSecret too short">>]

\* validation.Errors of a rejected form.
ErrValidation == [Type |-> "validation", Code |-> 0, Message |-> <<"cannot be blank">>]

\* erro.Error() under errors.Wrap(..., "Error"): the prefix and the message.
ErrorString(e) ==
    IF e.Type \in {"external", "validation"} THEN e.Message ELSE <<"Error:">> \o e.Message

(***************************************************************************)
(* Grant types (oauth.go).                                                 *)
(***************************************************************************)
GrantTypeRefreshToken == "refresh_token"
ClientCredentials == "client_credentials"
GrantTypePassword == "password"

(***************************************************************************)
(* The read-only collaborators: clients and users.                         *)
(***************************************************************************)
Nil == "nil"

ClientTable == [c1 |-> [secret |-> "s1", grants |-> {"password", "refresh_token", "client_credentials"}],
                c2 |-> [secret |-> "s2", grants |-> {"refresh_token", "client_credentials", "implicit"}]]

ClientIds == DOMAIN ClientTable

\* bcrypt: a stored hash is either the hash of a password or malformed.
Hash(raw) == <<"bcrypt", raw>>

UserTable == [u1 |-> [id |-> "u1", password |-> Hash("pw1")],
              u2 |-> [id |-> "u2", password |-> <<"corrupt">>]]

Usernames == DOMAIN UserTable

\* passwordEncoder.IsPasswordValid: (valid, err).
IsPasswordValid(encoded, raw) ==
    IF Len(encoded) # 2 THEN [valid |-> FALSE, err |-> ErrHash]
    ELSE IF encoded # Hash(raw) THEN [valid |-> FALSE, err |-> NoErr]
    ELSE [valid |-> TRUE, err |-> NoErr]

\* OAuthClientStorage.FindOneByClientIdSecretAndGrantType.
FindOneByClientIdSecretAndGrantType(cID, sec, gt, fail) ==
    IF fail THEN [client |-> Nil, err |-> ErrStorage]
    ELSE IF cID \in ClientIds /\ ClientTable[cID].secret = sec /\ gt \in ClientTable[cID].grants
    THEN [client |-> cID, err |-> NoErr]
    ELSE [client |-> Nil, err |-> ErrNoRows]

\* UserProvider.FindUserByUsername.
FindUserByUsername(username, fail) ==
    IF fail THEN [user |-> Nil, err |-> ErrStorage]
    ELSE IF username \in Usernames THEN [user |-> username, err |-> NoErr]
    ELSE [user |-> Nil, err |-> ErrNoRows]

(***************************************************************************)
(* State.  The local variables of a call live from its first step to its   *)
(* return; last observes the call that returned most recently.             *)
(***************************************************************************)
VARIABLES
    ats,        \* access token store: token string -> row
    rts,        \* refresh token store: token string -> row
    now,        \* the clock, in minutes
    nextTok,    \* the next string RandomString returns
    calls,      \* number of GrantAccessToken calls begun
    pc,         \* per caller: its position in GrantAccessToken
    req,        \* per caller: the GrantAccessTokenRequest
    loc,        \* per caller: the local variables of the call
    ops,        \* per caller: the storage calls made by the call so far, in order
    seqAfter,   \* per caller: the call began after a successful redemption of its refresh token
    last,       \* the call that returned last: request, (response, error), storage calls
    wins,       \* successful refresh redemptions: <<call, refresh token string>>
    config,     \* firewall.config: the ordered Areas
    dispatcher, \* firewall.dispatcher: nil, or the subscribers of each event
    served,     \* the HTTP request being served: request, firewall outcome, response
    answered,   \* the error response built last: revision, error, response
    bus,        \* the event dispatcher at work: Subscribe calls in progress, the last Dispatch
    tx,         \* Transactions.Run: the nested calls in progress and the database transaction
    chain       \* the middleware chain of the request served last: middlewares, invocations

vars == <<ats, rts, now, nextTok, calls, pc, req, loc, ops, seqAfter, last, wins,
          config, dispatcher, served, answered, bus, tx, chain>>

fwVars == <<config, dispatcher, served, answered, bus, tx, chain>>

(***************************************************************************)
(* Token rows and the entity methods of the storage interfaces.            *)
(***************************************************************************)
\* The zero value of a token string, and the strings RandomString(64) returns:
\* the n-th call returns a string no earlier call returned.
NoTok == ""

RandomString(n) == "tok" \o ToString(n)

\* OAuthAccessTokenValues / OAuthRefreshTokenValues as stored by Create.  The
\* fields call and updates are history: the GrantAccessToken call that created
\* the row, and the number of Update calls that have written it.
TokenRow(token, userId, clientId, expiresAt, call) ==
    [Token |-> token, UserId |-> userId, ClientId |-> clientId,
     ExpiresAt |-> expiresAt, expired |-> FALSE, call |-> call, updates |-> 0]

\* OAuthRefreshToken.Expired / OAuthAccessToken.Expired at time t.
Expired(row, t) == row.expired \/ row.ExpiresAt <= t

\* Faulty variant: SetExpired leaves the row as it is.
SetExpiredNoop(row) == row

\* OAuthRefreshToken.SetExpired.
SetExpired(row) == [row EXCEPT !.expired = TRUE]

\* OAuthRefreshTokenStorage.FindOneByToken / OAuthAccessTokenStorage.FindOneByToken.
FindOneByToken(store, token, fail) ==
    IF fail THEN [found |-> FALSE, err |-> ErrStorage]
    ELSE IF token \in DOMAIN store THEN [found |-> TRUE, err |-> NoErr]
    ELSE [found |-> FALSE, err |-> ErrNoRows]

\* time.Time.Unix of a time given in minutes.
Unix(t) == t * 60

ZeroResponse == [AccessToken |-> NoTok, RefreshToken |-> NoTok,
                 AccessTokenExpiresAt |-> 0, RefreshTokenExpiresAt |-> 0]

(***************************************************************************)
(* Requests a caller can send.                                             *)
(***************************************************************************)
Request(gt, cred, rt, un, pw) ==
    [GrantType |-> gt, ClientId |-> cred[1], ClientSecret |-> cred[2],
     RefreshToken |-> rt, Username |-> un, Password |-> pw]

\* Client c1 may use the password grant, client c2 may not; "implicit" is a
\* grant type outside the enumeration that client c2 is provisioned with.
Requests ==
    {Request(GrantTypePassword, <<"c1", "s1">>, NoTok, up[1], up[2]) :
        up \in {<<"u1", "pw1">>, <<"u1", "bad">>, <<"u2", "pw1">>, <<"nobody", "pw1">>}}
    \cup {Request(GrantTypePassword, c, NoTok, "u1", "pw1") : c \in {<<"c1", "bad">>, <<"c2", "s2">>}}
    \cup {Request(GrantTypeRefreshToken, c, rt, Nil, Nil) :
        c \in {<<"c1", "s1">>, <<"c2", "s2">>, <<"c1", "bad">>}, rt \in DOMAIN rts \cup {NoTok}}
    \cup {Request(ClientCredentials, c, NoTok, Nil, Nil) : c \in {<<"c1", "s1">>, <<"c2", "s2">>}}
    \cup {Request("implicit", c, NoTok, Nil, Nil) : c \in {<<"c1", "s1">>, <<"c2", "s2">>}}

NoRequest == Request(Nil, <<Nil, Nil>>, NoTok, Nil, Nil)

NoLoc == [call |-> 0, userId |-> Nil, clientId |-> Nil, entity |-> NoTok, at |-> NoTok, atExp |-> 0]

\* The record of a returned call: flt is the storage call that failed
\* internally ("none": every storage call of the call answered).
Returned(call, r, o, flt, sa, response, err) ==
    [call |-> call, req |-> r, ops |-> o, flt |-> flt, seqAfter |-> sa,
     resp |-> response, err |-> err]

NoLast == Returned(0, NoRequest, <<>>, "none", FALSE, ZeroResponse, NoErr)

(***************************************************************************)
(* The injected stores are persistent: when the engine is constructed     *)
(* they hold the token pair of an earlier password grant of user u1        *)
(* through client c1 (call 0, issued at time 0).                           *)
(***************************************************************************)
InitAccessTokens == "tok1" :> TokenRow("tok1", "u1", "c1", accessTokenTTL, 0)

InitRefreshTokens == "tok2" :> TokenRow("tok2", "u1", "c1", refreshTokenTTL, 0)

\* The call of caller p returns (response, err) after the storage call op;
\* failed: op failed internally.  The locals of the call are gone.
Return(p, op, failed, response, err) ==
    /\ last' = Returned(loc[p].call, req[p], Append(ops[p], op),
                        IF failed THEN op ELSE "none", seqAfter[p], response, err)
    /\ pc' = [pc EXCEPT ![p] = "idle"]
    /\ req' = [req EXCEPT ![p] = NoRequest]
    /\ loc' = [loc EXCEPT ![p] = NoLoc]
    /\ ops' = [ops EXCEPT ![p] = <<>>]
    /\ seqAfter' = [seqAfter EXCEPT ![p] = FALSE]

\* The call of caller p goes on to position to after the storage call op.
Continue(p, op, to, locals) ==
    /\ pc' = [pc EXCEPT ![p] = to]
    /\ loc' = [loc EXCEPT ![p] = locals]
    /\ ops' = [ops EXCEPT ![p] = Append(@, op)]
    /\ UNCHANGED <<req, seqAfter, last>>

(***************************************************************************)
(* oauth.GrantAccessToken: the client gate and the dispatch on grant type. *)
(***************************************************************************)
\* The branch the switch on req.GrantType takes.
GrantSwitch(gt) ==
    CASE gt = GrantTypePassword -> "userCredentials"
      [] gt = GrantTypeRefreshToken -> "refresh"
      [] gt = ClientCredentials -> "createAccessToken"
      [] OTHER -> "unknown"

\* Faulty variant: the error of the client lookup is ignored.
GrantGateOpen(clientErr, gt) ==
    IF GrantSwitch(gt) = "unknown" THEN UnknownGrantTypeErr(<<>>) ELSE NoErr

\* The error GrantAccessToken returns before any branch runs, if any.
GrantGate(clientErr, gt) ==
    IF clientErr # NoErr THEN InvalidGrantErr(<<>>)
    ELSE IF GrantSwitch(gt) = "unknown" THEN UnknownGrantTypeErr(<<>>)
    ELSE NoErr

GrantAccessToken(p, r, fail) ==
    /\ pc[p] = "idle"
    /\ calls < MaxCalls
    /\ calls' = calls + 1
    /\ LET c == FindOneByClientIdSecretAndGrantType(r.ClientId, r.ClientSecret, r.GrantType, fail)
           op == "cs.FindOneByClientIdSecretAndGrantType"
           sa == r.GrantType = GrantTypeRefreshToken /\ \E w \in wins : w[2] = r.RefreshToken
           err == GrantGate(c.err, r.GrantType)
       IN  IF err # NoErr
           THEN /\ last' = Returned(calls + 1, r, <<op>>, IF fail THEN op ELSE "none", sa, ZeroResponse, err)
                /\ UNCHANGED <<pc, req, loc, ops, seqAfter>>
           ELSE /\ pc' = [pc EXCEPT ![p] = GrantSwitch(r.GrantType)]
                /\ req' = [req EXCEPT ![p] = r]
                \* grantAccessTokenClientCredentials: no user, client.GetID()
                /\ loc' = [loc EXCEPT ![p] = [NoLoc EXCEPT !.call = calls + 1, !.clientId = c.client]]
                /\ ops' = [ops EXCEPT ![p] = <<op>>]
                /\ seqAfter' = [seqAfter EXCEPT ![p] = sa]
                /\ last' = last
    /\ UNCHANGED <<ats, rts, now, nextTok, wins>>
    /\ UNCHANGED fwVars

(***************************************************************************)
(* oauth.grantAccessTokenUserCredentials.                                  *)
(***************************************************************************)
\* Faulty variant: an unknown user is reported with the lookup's own error.
UserCredentialsErrLeaky(found, password) ==
    IF found.err # NoErr THEN found.err
    ELSE IF ~IsPasswordValid(UserTable[found.user].password, password).valid
    THEN InvalidCredentialsErr(<<>>)
    ELSE NoErr

\* Faulty variant: the validity test is inverted.
UserCredentialsErrInverted(found, password) ==
    IF found.err # NoErr THEN InvalidCredentialsErr(<<>>)
    ELSE IF IsPasswordValid(UserTable[found.user].password, password).valid
    THEN InvalidCredentialsErr(<<>>)
    ELSE NoErr

\* The error of the password branch for the looked-up user and the password.
UserCredentialsErr(found, password) ==
    IF found.err # NoErr THEN InvalidCredentialsErr(<<>>)
    ELSE IF ~IsPasswordValid(UserTable[found.user].password, password).valid
    THEN InvalidCredentialsErr(<<>>)
    ELSE NoErr

grantAccessTokenUserCredentials(p, fail) ==
    /\ pc[p] = "userCredentials"
    /\ LET found == FindUserByUsername(req[p].Username, fail)
           err == UserCredentialsErr(found, req[p].Password)
           op == "up.FindUserByUsername"
       IN  IF err # NoErr
           THEN Return(p, op, fail, ZeroResponse, err)
           ELSE Continue(p, op, "createAccessToken",
                         [loc[p] EXCEPT !.userId = UserTable[found.user].id])
    /\ UNCHANGED <<ats, rts, now, nextTok, calls, wins>>
    /\ UNCHANGED fwVars

(***************************************************************************)
(* oauth.grantAccessTokenRefresh: FindOneByToken and the Expired check,    *)
(* then SetExpired and Update.  The two storage calls are separate steps.  *)
(***************************************************************************)
\* Faulty variant: the entity is not checked for expiry.
RefreshGateUnchecked(entity, t) == NoErr

\* The error of the check on the entity FindOneByToken returned.
RefreshGate(entity, t) == IF Expired(entity, t) THEN UnauthorizedErr(<<>>) ELSE NoErr

grantAccessTokenRefresh_FindOneByToken(p, fail) ==
    /\ pc[p] = "refresh"
    /\ LET token == req[p].RefreshToken
           found == FindOneByToken(rts, token, fail)
           op == "rts.FindOneByToken"
       IN  IF found.err # NoErr
           THEN Return(p, op, fail, ZeroResponse, found.err)
           ELSE IF RefreshGate(rts[token], now) # NoErr
           THEN Return(p, op, fail, ZeroResponse, RefreshGate(rts[token], now))
           ELSE Continue(p, op, "refreshUpdate", [loc[p] EXCEPT !.entity = token])
    /\ UNCHANGED <<ats, rts, now, nextTok, calls, wins>>
    /\ UNCHANGED fwVars

\* OAuthRefreshTokenStorage.Update: the row of the entity's token is written.
Update(store, token, entity) ==
    [store EXCEPT ![token] = [entity EXCEPT !.updates = store[token].updates + 1]]

\* Faulty variant: the new pair is bound to the requesting client and to no
\* subject.
RefreshIdentityOfRequest(p, entity) ==
    [loc[p] EXCEPT !.userId = Nil]

\* The locals createAccessTokenResponse is called with after a redemption:
\* refreshToken.GetUserID(), refreshToken.GetClientID().
RefreshIdentity(p, entity) ==
    [loc[p] EXCEPT !.userId = entity.UserId, !.clientId = entity.ClientId]

\* refreshToken.SetExpired(); a.rts.Update(ctx, refreshToken): the entity the
\* caller holds is the row it read, marked expired; Update writes it back.
grantAccessTokenRefresh_Update(p, fail) ==
    /\ pc[p] = "refreshUpdate"
    /\ LET token == loc[p].entity
           entity == SetExpired(rts[token])
           op == "rts.Update"
       IN  IF fail
           THEN /\ Return(p, op, fail, ZeroResponse, ErrStorage)
                /\ rts' = rts
           ELSE /\ rts' = Update(rts, token, entity)
                /\ Continue(p, op, "createAccessToken", RefreshIdentity(p, entity))
    /\ UNCHANGED <<ats, now, nextTok, calls, wins>>
    /\ UNCHANGED fwVars

(***************************************************************************)
(* oauth.createAccessTokenResponse: ats.Create, then rts.Create.           *)
(***************************************************************************)
\* Faulty variant: creating a token expires the tokens stored before it.
CreateExpiring(store, entity) ==
    [t \in DOMAIN store |-> [store[t] EXCEPT !.expired = TRUE]] @@ (entity.Token :> entity)

\* Create of a token storage: a new row, the stored rows untouched.
Create(store, entity) == store @@ (entity.Token :> entity)

createAccessTokenResponse_ats(p, fail) ==
    /\ pc[p] = "createAccessToken"
    /\ nextTok' = nextTok + 1
    /\ LET atv == TokenRow(RandomString(nextTok), loc[p].userId, loc[p].clientId, now + accessTokenTTL, loc[p].call)
           op == "ats.Create"
       IN  IF fail
           THEN /\ Return(p, op, fail, ZeroResponse, ErrStorage)
                /\ ats' = ats
           ELSE /\ ats' = Create(ats, atv)
                /\ Continue(p, op, "createRefreshToken",
                            [loc[p] EXCEPT !.at = atv.Token, !.atExp = atv.ExpiresAt])
    /\ UNCHANGED <<rts, now, calls, wins>>
    /\ UNCHANGED fwVars

\* Faulty variant: the two expiry fields of the response exchanged.
ResponseSwappedExpiry(p, rtv) ==
    [AccessToken |-> loc[p].at,
     RefreshToken |-> rtv.Token,
     AccessTokenExpiresAt |-> Unix(rtv.ExpiresAt),
     RefreshTokenExpiresAt |-> Unix(loc[p].atExp)]

\* The response of a call whose two Create calls succeeded.
Response(p, rtv) ==
    [AccessToken |-> loc[p].at,
     RefreshToken |-> rtv.Token,
     AccessTokenExpiresAt |-> Unix(loc[p].atExp),
     RefreshTokenExpiresAt |-> Unix(rtv.ExpiresAt)]

createAccessTokenResponse_rts(p, fail) ==
    /\ pc[p] = "createRefreshToken"
    /\ nextTok' = nextTok + 1
    /\ LET rtv == TokenRow(RandomString(nextTok), loc[p].userId, loc[p].clientId, now + refreshTokenTTL, loc[p].call)
           op == "rts.Create"
       IN  IF fail
           THEN /\ Return(p, op, fail, ZeroResponse, ErrStorage)
                /\ UNCHANGED <<rts, wins>>
           ELSE /\ rts' = Create(rts, rtv)
                /\ Return(p, op, fail, Response(p, rtv), NoErr)
                /\ wins' = IF req[p].GrantType = GrantTypeRefreshToken
                           THEN wins \cup {<<loc[p].call, req[p].RefreshToken>>}
                           ELSE wins
    /\ UNCHANGED <<ats, now, calls>>
    /\ UNCHANGED fwVars

(***************************************************************************)
(* The clock.                                                              *)
(***************************************************************************)
Tick ==
    /\ now < MaxTime
    /\ now' = now + 1
    /\ UNCHANGED <<ats, rts, nextTok, calls, pc, req, loc, ops, seqAfter, last, wins>>
    /\ UNCHANGED fwVars


(***************************************************************************)
(* The OAuth authenticator (oauthAuthenticator.Authorize).                  *)
(***************************************************************************)
\* OAuthClientStorage.Find.
Find(id, fail) ==
    IF fail THEN [client |-> Nil, err |-> ErrStorage]
    ELSE IF id \in ClientIds THEN [client |-> id, err |-> NoErr]
    ELSE [client |-> Nil, err |-> ErrNoRows]

\* UserProvider.FindUserByID.
FindUserByID(id, fail) ==
    IF fail THEN [user |-> Nil, err |-> ErrStorage]
    ELSE IF \E u \in Usernames : UserTable[u].id = id THEN [user |-> id, err |-> NoErr]
    ELSE [user |-> Nil, err |-> ErrNoRows]

\* The nil token, and NewOauthToken.
NilToken == [provider |-> Nil, client |-> Nil, user |-> Nil]

NewOauthToken(client, user) == [provider |-> "oauth", client |-> client, user |-> user]

\* The accessors of OauthAuthToken.  User() of the net/http revision returns
\* nil whatever the token holds; User() of the fasthttp revision returns the
\* user the token was built with.
User(o) == Nil

UserFastHTTP(o) == o.user

Provider(o) == "oauth"

\* What an Authenticator returns: (token, err), or it panics; lookups are the
\* storage calls it made, in order.
AuthResult(token, err, lookups) ==
    [token |-> token, err |-> err, panicked |-> FALSE, lookups |-> lookups, called |-> TRUE]

AuthPanic(lookups) ==
    [token |-> NilToken, err |-> NoErr, panicked |-> TRUE, lookups |-> lookups, called |-> TRUE]

NoAuth == [token |-> NilToken, err |-> NoErr, panicked |-> FALSE, lookups |-> <<>>, called |-> FALSE]

\* strings.Split(tokenHeader, " ") of a non-empty header: the header is held
\* as the sequence of its space-separated parts; the empty header is <<>>.
Split(tokenHeader) == IF tokenHeader = <<>> THEN <<"">> ELSE tokenHeader

\* Faulty variant: the expiry of the access token is not checked.
AccessGateUnchecked(accessToken, t) == NoErr

\* The error of the check on the access token FindOneByToken returned.
AccessGate(accessToken, t) == IF Expired(accessToken, t) THEN AuthorizationExpiredErr(<<>>) ELSE NoErr

\* Faulty variant: the user is looked up whether or not the token has one.
AuthorizeClientAlwaysUser(accessToken, failAt) ==
    LET c == Find(accessToken.ClientId, failAt = "cs")
        u == FindUserByID(accessToken.UserId, failAt = "up")
    IN  IF c.err # NoErr
        THEN AuthResult(NilToken, c.err, <<"ats.FindOneByToken", "cs.Find">>)
        ELSE IF u.err # NoErr
        THEN AuthResult(NilToken, u.err, <<"ats.FindOneByToken", "cs.Find", "up.FindUserByID">>)
        ELSE AuthResult(NewOauthToken(c.client, u.user), NoErr,
                        <<"ats.FindOneByToken", "cs.Find", "up.FindUserByID">>)

\* Authorize, from the lookup of the client on.
AuthorizeClient(accessToken, failAt) ==
    LET c == Find(accessToken.ClientId, failAt = "cs")
        u == FindUserByID(accessToken.UserId, failAt = "up")
    IN  IF c.err # NoErr
        THEN AuthResult(NilToken, c.err, <<"ats.FindOneByToken", "cs.Find">>)
        ELSE IF accessToken.UserId = Nil
        THEN AuthResult(NewOauthToken(c.client, Nil), NoErr, <<"ats.FindOneByToken", "cs.Find">>)
        ELSE IF u.err # NoErr
        THEN AuthResult(NilToken, u.err, <<"ats.FindOneByToken", "cs.Find", "up.FindUserByID">>)
        ELSE AuthResult(NewOauthToken(c.client, u.user), NoErr,
                        <<"ats.FindOneByToken", "cs.Find", "up.FindUserByID">>)

\* Faulty variant: the client is looked up before the expiry is checked.
AuthorizeTokenClientFirst(token, failAt) ==
    LET found == FindOneByToken(ats, token, failAt = "ats")
        c == Find(ats[token].ClientId, failAt = "cs")
    IN  IF found.err # NoErr
        THEN AuthResult(NilToken, found.err, <<"ats.FindOneByToken">>)
        ELSE IF c.err # NoErr
        THEN AuthResult(NilToken, c.err, <<"ats.FindOneByToken", "cs.Find">>)
        ELSE IF AccessGate(ats[token], now) # NoErr
        THEN AuthResult(NilToken, AccessGate(ats[token], now), <<"ats.FindOneByToken", "cs.Find">>)
        ELSE AuthorizeClient(ats[token], failAt)

\* Authorize, from the lookup of the access token on.
AuthorizeToken(token, failAt) ==
    LET found == FindOneByToken(ats, token, failAt = "ats")
    IN  IF found.err # NoErr
        THEN AuthResult(NilToken, found.err, <<"ats.FindOneByToken">>)
        ELSE IF AccessGate(ats[token], now) # NoErr
        THEN AuthResult(NilToken, AccessGate(ats[token], now), <<"ats.FindOneByToken">>)
        ELSE AuthorizeClient(ats[token], failAt)

\* Faulty variant: the header is not checked before the lookup.
HeaderGateUnchecked(tokenHeader) == NoErr

\* The error of the checks on the Authorization header.
HeaderGate(tokenHeader) ==
    IF tokenHeader = <<>> THEN AuthorizationRequiredErr(<<>>)
    ELSE IF Len(Split(tokenHeader)) > 2 THEN AuthorizationRequiredErr(<<>>)
    ELSE NoErr

\* failAt: the storage that fails internally during this call ("none": none).
Authorize(tokenHeader, failAt) ==
    IF HeaderGate(tokenHeader) # NoErr
    THEN AuthResult(NilToken, HeaderGate(tokenHeader), <<>>)
    ELSE IF Len(Split(tokenHeader)) < 2
    THEN AuthPanic(<<>>)     \* token[1]: index out of range
    ELSE AuthorizeToken(Split(tokenHeader)[2], failAt)

(***************************************************************************)
(* Responses (NewErrorJSONResponse, NewErrorJsonResponse) and the error    *)
(* the firewall builds for a failing event subscriber.                     *)
(***************************************************************************)
InternalServerErr(message) == wrapErr("InternalServer", 500, JoinStrings("Internal server error", message))

JsonResponse(code, payload) == [code |-> code, payload |-> payload]

NoResponse == JsonResponse(0, <<>>)

\* What the business handler answers.
HandlerResponse == JsonResponse(200, <<"handled">>)

\* NewErrorJSONResponse (fasthttp revision).
NewErrorJSONResponse(e) ==
    IF e = NoErr THEN JsonResponse(200, <<>>)
    ELSE IF e.Type = "validation" THEN JsonResponse(422, ErrorString(e))
    ELSE IF e = ErrNoRows THEN JsonResponse(404, ErrorString(e))
    ELSE IF e.Type = "external" THEN JsonResponse(500, ErrorString(e))
    ELSE JsonResponse(e.Code, ErrorString(e))

\* NewErrorJsonResponse (net/http revision).
NewErrorJsonResponse(e) ==
    IF e = NoErr THEN JsonResponse(200, <<>>)
    ELSE IF e.Type \in {"external", "validation"} THEN JsonResponse(500, ErrorString(e))
    ELSE JsonResponse(e.Code, ErrorString(e))

(***************************************************************************)
(* The event dispatcher as the firewall uses it (dispatchEventSilent).     *)
(* A subscriber is a function of the environment: what it returns is an    *)
(* input of the request.                                                   *)
(***************************************************************************)
BeforeAuthEventName == "core.firewall.before_auth"
AfterAuthEventName == "core.firewall.after_auth"

ErrSubscriber == [Type |-> "external", Code |-> 0, Message |-> <<"subscriber failed">>]

\* What a subscriber returns: nil, ErrEventStopped, or another error.
SubscriberReturns == {"nil", "stopped", "error"}

\* Faulty variant: ErrEventStopped is returned like any other error.
doDispatchStopIsError(returns) ==
    IF \A k \in 1..Len(returns) : returns[k] = "nil" THEN NoErr ELSE ErrSubscriber

\* doDispatch over the values the subscribers return, in order.
RECURSIVE doDispatch(_)
doDispatch(returns) ==
    IF returns = <<>> THEN NoErr
    ELSE IF Head(returns) = "nil" THEN doDispatch(Tail(returns))
    ELSE IF Head(returns) = "stopped" THEN NoErr
    ELSE ErrSubscriber

NilDispatcher == [nil |-> TRUE, subscribers |-> <<>>]

\* A dispatcher with one subscriber of each firewall event.
FirewallDispatcher ==
    [nil |-> FALSE,
     subscribers |-> (BeforeAuthEventName :> <<"s1">>) @@ (AfterAuthEventName :> <<"s2">>)]

\* dispatchEventSilent: returns[k] is what the k-th subscriber returns.
dispatchEventSilent(d, event, returns) ==
    IF d.nil THEN NoErr
    ELSE IF event \notin DOMAIN d.subscribers THEN NoErr
    ELSE doDispatch(SubSeq(returns, 1, Len(d.subscribers[event])))

(***************************************************************************)
(* firewall.Handle.                                                        *)
(***************************************************************************)
MaxAreas == 2      \* Areas in the firewall configuration

\* Patterns are anchored prefixes of path segments: <<"public">> stands for
\* "^/public", <<>> for "^/.*".
Patterns == {<<"public">>, <<>>}

Paths == {<<"public", "x">>, <<"private", "x">>}

\* regexp.MustCompile(area.Pattern).Match(req.Path())
MatchString(pattern, path) ==
    /\ Len(pattern) <= Len(path)
    /\ SubSeq(path, 1, Len(pattern)) = pattern

\* An Area's Authenticator: nil, the OAuth authenticator, or another
\* implementation of the interface.
Authenticators == {Nil, "oauth", "custom"}

\* An open Area carries no Authenticator or the OAuth one.
Areas == {a \in [Secure : BOOLEAN, Pattern : Patterns, Authenticator : Authenticators] :
            ~a.Secure => a.Authenticator # "custom"}

FirewallConfigs == UNION {[1..n -> Areas] : n \in 0..MaxAreas}

\* What another Authenticator implementation can return.
CustomToken == [provider |-> "custom", client |-> Nil, user |-> "u1"]

CustomReturns == {"token", "error", "nil"}

\* area.Authenticator.Authenticate(req) / Authorize(req).
Authenticate(authenticator, r, env) ==
    IF authenticator = "oauth" THEN Authorize(r.Authorization, env.failAt)
    ELSE IF env.custom = "token" THEN AuthResult(CustomToken, NoErr, <<>>)
    ELSE IF env.custom = "error" THEN AuthResult(NilToken, ErrStorage, <<>>)
    ELSE AuthResult(NilToken, NoErr, <<>>)

\* FromContext on the request scope, where ctx is the token of the
\* SecurityContext stored under the security-context key (NilToken: nothing
\* is stored): (SecurityContext, ok).
FromContext(ctx) ==
    IF ctx = NilToken THEN [s |-> [Token |-> NilToken], ok |-> FALSE]
    ELSE [s |-> [Token |-> ctx], ok |-> TRUE]

\* The outcome of Handle: the Area that matched first (0: none), the steps
\* taken in order, what the authenticator returned, the SecurityContext put
\* on the request, whether next ran, and the response (none on a panic).
Outcome(area, steps, auth, ctx, nextCalled, panicked, resp) ==
    [area |-> area, steps |-> steps, auth |-> auth, ctx |-> ctx,
     nextCalled |-> nextCalled, panicked |-> panicked, resp |-> resp]

\* The steps a dispatch of event adds: none when there is no dispatcher.
Dispatched(d, event) == IF d.nil THEN <<>> ELSE <<event>>

\* Faulty variant: an authenticator error does not stop the request.
AfterAuthenticatePermissive(i, steps, auth, env) ==
    Outcome(i, steps \o <<"SetUserValue", "next">>, auth, auth.token, TRUE, FALSE, HandlerResponse)

\* Faulty variant: next is called without the SecurityContext on the request.
AfterAuthenticateNoContext(i, steps, auth, env) ==
    IF auth.panicked
    THEN Outcome(i, steps, auth, NilToken, FALSE, TRUE, NoResponse)
    ELSE IF auth.err # NoErr
    THEN Outcome(i, steps, auth, NilToken, FALSE, FALSE,
                 NewErrorJSONResponse(UnauthorizedErr(ErrorString(auth.err))))
    ELSE IF auth.token = NilToken
    THEN Outcome(i, steps, auth, NilToken, FALSE, FALSE, NewErrorJSONResponse(InvalidGrantErr(<<>>)))
    ELSE Outcome(i, steps \o Dispatched(dispatcher, AfterAuthEventName) \o <<"next">>,
                 auth, NilToken, TRUE, FALSE, HandlerResponse)

\* Handle, from the return of Authenticate on (fasthttp revision).
AfterAuthenticate(i, steps, auth, env) ==
    IF auth.panicked
    THEN Outcome(i, steps, auth, NilToken, FALSE, TRUE, NoResponse)
    ELSE IF auth.err # NoErr
    THEN Outcome(i, steps, auth, NilToken, FALSE, FALSE,
                 NewErrorJSONResponse(UnauthorizedErr(ErrorString(auth.err))))
    ELSE IF auth.token = NilToken
    THEN Outcome(i, steps, auth, NilToken, FALSE, FALSE, NewErrorJSONResponse(InvalidGrantErr(<<>>)))
    ELSE IF dispatchEventSilent(dispatcher, AfterAuthEventName, env.after) # NoErr
    THEN Outcome(i, steps \o Dispatched(dispatcher, AfterAuthEventName), auth, NilToken, FALSE, FALSE,
                 NewErrorJSONResponse(InternalServerErr(
                    ErrorString(dispatchEventSilent(dispatcher, AfterAuthEventName, env.after)))))
    ELSE Outcome(i, steps \o Dispatched(dispatcher, AfterAuthEventName) \o <<"SetUserValue", "next">>,
                 auth, auth.token, TRUE, FALSE, HandlerResponse)

\* Faulty variant: a secure Area without Authenticator lets the request through.
SecureAreaOpen(i, area, r, env) ==
    Outcome(i, <<"next">>, NoAuth, NilToken, TRUE, FALSE, HandlerResponse)

\* Faulty variant: Authenticate is called before the before-auth event is
\* dispatched, and the answer of its subscribers is dropped.
SecureAreaAuthenticateFirst(i, area, r, env) ==
    IF area.Authenticator = Nil
    THEN Outcome(i, <<>>, NoAuth, NilToken, FALSE, TRUE, NoResponse)
    ELSE AfterAuthenticate(i, <<"Authenticate">> \o Dispatched(dispatcher, BeforeAuthEventName),
                           Authenticate(area.Authenticator, r, env), env)

\* Handle, for the secure Area i that matched (fasthttp revision).
SecureArea(i, area, r, env) ==
    IF area.Authenticator = Nil
    THEN Outcome(i, <<>>, NoAuth, NilToken, FALSE, TRUE, NoResponse)   \* panic
    ELSE IF dispatchEventSilent(dispatcher, BeforeAuthEventName, env.before) # NoErr
    THEN Outcome(i, Dispatched(dispatcher, BeforeAuthEventName), NoAuth, NilToken, FALSE, FALSE,
                 NewErrorJSONResponse(InternalServerErr(
                    ErrorString(dispatchEventSilent(dispatcher, BeforeAuthEventName, env.before)))))
    ELSE AfterAuthenticate(i, Dispatched(dispatcher, BeforeAuthEventName) \o <<"Authenticate">>,
                           Authenticate(area.Authenticator, r, env), env)

\* Faulty variant: a request that matches no Area is let through.
NoAreaAllow == Outcome(0, <<"next">>, NoAuth, NilToken, TRUE, FALSE, HandlerResponse)

\* Handle, when the loop over the Areas ends (fasthttp revision).
NoArea == Outcome(0, <<>>, NoAuth, NilToken, FALSE, FALSE, NewErrorJSONResponse(AccessDeniedErr(<<>>)))

\* Faulty variant: an open Area with an Authenticator resolves the identity.
OpenAreaIdentified(i, area, r, env) ==
    IF area.Authenticator = Nil
    THEN Outcome(i, <<"next">>, NoAuth, NilToken, TRUE, FALSE, HandlerResponse)
    ELSE Outcome(i, <<"Authenticate", "SetUserValue", "next">>, Authenticate(area.Authenticator, r, env),
                 Authenticate(area.Authenticator, r, env).token, TRUE, FALSE, HandlerResponse)

\* Handle, for the Area i that matched and is not secure (both revisions):
\* return next(req).
OpenArea(i, area, r, env) ==
    Outcome(i, <<"next">>, NoAuth, NilToken, TRUE, FALSE, HandlerResponse)

\* Faulty variant: a matching open Area does not end the loop when a later
\* Area follows.
RECURSIVE HandleFromFallThrough(_, _, _)
HandleFromFallThrough(i, r, env) ==
    IF i > Len(config) THEN NoArea
    ELSE IF ~MatchString(config[i].Pattern, r.Path) THEN HandleFromFallThrough(i + 1, r, env)
    ELSE IF ~config[i].Secure
    THEN IF i < Len(config) THEN HandleFromFallThrough(i + 1, r, env)
         ELSE OpenArea(i, config[i], r, env)
    ELSE SecureArea(i, config[i], r, env)

\* The loop of Handle over f.config, from Area i on (fasthttp revision).
RECURSIVE HandleFrom(_, _, _)
HandleFrom(i, r, env) ==
    IF i > Len(config) THEN NoArea
    ELSE IF ~MatchString(config[i].Pattern, r.Path) THEN HandleFrom(i + 1, r, env)
    ELSE IF ~config[i].Secure THEN OpenArea(i, config[i], r, env)
    ELSE SecureArea(i, config[i], r, env)

Handle(r, env) == HandleFrom(1, r, env)

(***************************************************************************)
(* firewall.Handle, net/http revision (http_firewall.go): no events, and   *)
(* an authenticator error is answered with AccessDenied.                   *)
(***************************************************************************)
SecureAreaNetHTTP(i, area, r, env) ==
    LET auth == Authenticate(area.Authenticator, r, env)
    IN  IF area.Authenticator = Nil
        THEN Outcome(i, <<>>, NoAuth, NilToken, FALSE, TRUE, NoResponse)   \* panic
        ELSE IF auth.panicked
        THEN Outcome(i, <<"Authenticate">>, auth, NilToken, FALSE, TRUE, NoResponse)
        ELSE IF auth.err # NoErr
        THEN Outcome(i, <<"Authenticate">>, auth, NilToken, FALSE, FALSE,
                     NewErrorJsonResponse(AccessDeniedErr(ErrorString(auth.err))))
        ELSE IF auth.token = NilToken
        THEN Outcome(i, <<"Authenticate">>, auth, NilToken, FALSE, FALSE,
                     NewErrorJsonResponse(InvalidGrantErr(<<>>)))
        ELSE Outcome(i, <<"Authenticate", "WithContext", "next">>, auth, auth.token, TRUE, FALSE,
                     HandlerResponse)

NoAreaNetHTTP == Outcome(0, <<>>, NoAuth, NilToken, FALSE, FALSE, NewErrorJsonResponse(AccessDeniedErr(<<>>)))

RECURSIVE HandleFromNetHTTP(_, _, _)
HandleFromNetHTTP(i, r, env) ==
    IF i > Len(config) THEN NoAreaNetHTTP
    ELSE IF ~MatchString(config[i].Pattern, r.Path) THEN HandleFromNetHTTP(i + 1, r, env)
    ELSE IF ~config[i].Secure THEN OpenArea(i, config[i], r, env)
    ELSE SecureAreaNetHTTP(i, config[i], r, env)

HandleNetHTTP(r, env) == HandleFromNetHTTP(1, r, env)

(***************************************************************************)
(* router.createHandler: the firewall is the router's middleware; a panic  *)
(* below the handler is recovered and answered with status 500.            *)
(***************************************************************************)
HttpRequest(path, authorization) == [Path |-> path, Authorization |-> authorization]

\* The Authorization header values a client may send.
AuthorizationHeaders ==
    {<<>>, <<"tok1">>, <<"Bearer", "tok1", "x">>}
    \cup {<<"Bearer", t>> : t \in DOMAIN ats \cup {"tok0"}}

HttpRequests == {HttpRequest(pt, h) : pt \in Paths, h \in AuthorizationHeaders}

\* What the environment decides while a request is served: the storage that
\* fails, what a custom authenticator returns, what the subscribers return.
FailPoints == {"none", "ats", "cs", "up"}

Envs == [failAt : FailPoints, custom : CustomReturns,
         before : [1..1 -> SubscriberReturns], after : [1..1 -> SubscriberReturns]]

NoEnv == [failAt |-> "none", custom |-> "token", before |-> <<"nil">>, after |-> <<"nil">>]

\* The first Area whose pattern matches the path (0: none).
RECURSIVE FirstMatch(_, _)
FirstMatch(i, path) ==
    IF i > Len(config) THEN 0
    ELSE IF MatchString(config[i].Pattern, path) THEN i
    ELSE FirstMatch(i + 1, path)

\* The environments that differ in something the request can observe.
EnvsOf(r, events) ==
    LET i == FirstMatch(1, r.Path)
        authenticator == IF i > 0 /\ config[i].Secure THEN config[i].Authenticator ELSE Nil
        returns == IF authenticator = Nil \/ dispatcher.nil \/ ~events
                   THEN {<<"nil">>} ELSE [1..1 -> SubscriberReturns]
    IN  [failAt : IF authenticator = "oauth" THEN FailPoints ELSE {"none"},
         custom : IF authenticator = "custom" THEN CustomReturns ELSE {"token"},
         before : returns, after : returns]

\* served: the revision of the handler, the request, what the environment
\* decided, the time, the outcome of the firewall, the status and body written.
NoServed == [rev |-> Nil, req |-> HttpRequest(<<>>, <<>>), env |-> NoEnv, time |-> 0,
             out |-> NoArea, status |-> 0, body |-> <<>>]

\* The status and body createHandler writes for the outcome of the middleware.
Status(out) == IF out.panicked THEN 500 ELSE IF out.resp.code = 0 THEN 500 ELSE out.resp.code

createHandler(r, env) ==
    /\ served = NoServed
    /\ LET out == Handle(r, env)
       IN  served' = [rev |-> "fasthttp", req |-> r, env |-> env, time |-> now, out |-> out,
                      status |-> Status(out),
                      body |-> IF out.panicked THEN <<"internal error">> ELSE out.resp.payload]
    /\ UNCHANGED <<ats, rts, now, nextTok, calls, pc, req, loc, ops, seqAfter, last, wins, config, dispatcher,
                   answered, bus, tx, chain>>

createHandlerNetHTTP(r, env) ==
    /\ served = NoServed
    /\ LET out == HandleNetHTTP(r, env)
       IN  served' = [rev |-> "net/http", req |-> r, env |-> env, time |-> now, out |-> out,
                      status |-> Status(out),
                      body |-> IF out.panicked THEN <<>> ELSE out.resp.payload]
    /\ UNCHANGED <<ats, rts, now, nextTok, calls, pc, req, loc, ops, seqAfter, last, wins, config, dispatcher,
                   answered, bus, tx, chain>>

\* No error response has been built.
NoAnswer == [rev |-> Nil, kind |-> Nil, err |-> NoErr, resp |-> JsonResponse(200, <<>>)]

\* The request completes: its scope, with the SecurityContext, is gone.
Complete ==
    /\ served # NoServed
    /\ served' = NoServed
    /\ UNCHANGED <<ats, rts, now, nextTok, calls, pc, req, loc, ops, seqAfter, last, wins, config, dispatcher,
                   answered, bus, tx, chain>>

\* No Subscribe call has begun and nothing has been dispatched.
NoDispatch == [event |-> Nil, configured |-> FALSE, subs |-> <<>>, returns |-> <<>>, invoked |-> <<>>,
               err |-> NoErr]

NoSubscribe == [pc |-> "idle", evt |-> Nil, s |-> <<>>]

NoBus == [configured |-> FALSE, cfg |-> <<>>, sub |-> [p \in Callers |-> NoSubscribe],
          dispatched |-> NoDispatch]

\* No Run is in progress and no database transaction has been begun.
NoTx == [stack |-> <<>>, runs |-> 0, begun |-> 0, log |-> <<>>, done |-> <<>>, outer |-> "none"]

\* No request has gone through the middleware chain.
NoChain == [middlewares |-> <<>>, req |-> HttpRequest(<<>>, <<>>), env |-> NoEnv, trace |-> <<>>,
            resp |-> NoResponse]

(***************************************************************************)
(* The grant specification: concurrent callers of GrantAccessToken.        *)
(***************************************************************************)
Init ==
    /\ ats = InitAccessTokens
    /\ rts = InitRefreshTokens
    /\ now = 0
    /\ nextTok = 3
    /\ calls = 0
    /\ pc = [p \in Callers |-> "idle"]
    /\ req = [p \in Callers |-> NoRequest]
    /\ loc = [p \in Callers |-> NoLoc]
    /\ ops = [p \in Callers |-> <<>>]
    /\ seqAfter = [p \in Callers |-> FALSE]
    /\ last = NoLast
    /\ wins = {}
    /\ config = <<>>
    /\ dispatcher = NilDispatcher
    /\ served = NoServed
    /\ answered = NoAnswer
    /\ bus = NoBus
    /\ tx = NoTx
    /\ chain = NoChain

Next ==
    \/ \E p \in Callers, r \in Requests, fail \in BOOLEAN : GrantAccessToken(p, r, fail)
    \/ \E p \in Callers, fail \in BOOLEAN : grantAccessTokenUserCredentials(p, fail)
    \/ \E p \in Callers, fail \in BOOLEAN : grantAccessTokenRefresh_FindOneByToken(p, fail)
    \/ \E p \in Callers, fail \in BOOLEAN : grantAccessTokenRefresh_Update(p, fail)
    \/ \E p \in Callers, fail \in BOOLEAN : createAccessTokenResponse_ats(p, fail)
    \/ \E p \in Callers, fail \in BOOLEAN : createAccessTokenResponse_rts(p, fail)
    \/ Tick

Spec == Init /\ [][Next]_vars

(***************************************************************************)
(* The firewall specification: a server with any firewall configuration    *)
(* in front of a token store that holds the access tokens of earlier       *)
(* grants: of user u1 through client c1, of client c2 alone (client        *)
(* credentials), and of a user u3 who has since been removed.              *)
(***************************************************************************)
FirewallAccessTokens ==
    ("tok1" :> TokenRow("tok1", "u1", "c1", accessTokenTTL, 0))
    @@ ("tok3" :> TokenRow("tok3", Nil, "c2", accessTokenTTL + 1, 0))
    @@ ("tok5" :> TokenRow("tok5", "u3", "c1", accessTokenTTL + 1, 0))

InitFirewall ==
    /\ ats = FirewallAccessTokens
    /\ rts = InitRefreshTokens
    /\ now = 0
    /\ nextTok = 7
    /\ calls = 0
    /\ pc = [p \in Callers |-> "idle"]
    /\ req = [p \in Callers |-> NoRequest]
    /\ loc = [p \in Callers |-> NoLoc]
    /\ ops = [p \in Callers |-> <<>>]
    /\ seqAfter = [p \in Callers |-> FALSE]
    /\ last = NoLast
    /\ wins = {}
    /\ config \in FirewallConfigs
    /\ dispatcher \in {NilDispatcher, FirewallDispatcher}
    /\ served = NoServed
    /\ answered = NoAnswer
    /\ bus = NoBus
    /\ tx = NoTx
    /\ chain = NoChain

NextFirewall ==
    \/ \E r \in HttpRequests : \E env \in EnvsOf(r, TRUE) : createHandler(r, env)
    \/ \E r \in HttpRequests : \E env \in EnvsOf(r, FALSE) : createHandlerNetHTTP(r, env)
    \/ Complete
    \/ Tick

SpecFirewall == InitFirewall /\ [][NextFirewall]_vars

(***************************************************************************)
(* The response specification: an error response is built from an error of *)
(* the authentication taxonomy, with any message, or from an error of      *)
(* another type, by either revision of the response constructor.           *)
(***************************************************************************)
MaxMessageLen == 2

Words == {"token", "store"}

\* The variadic message arguments of a constructor.
Messages == UNION {[1..n -> Words] : n \in 0..MaxMessageLen}

Unauthorized == {"InvalidGrant", "UnknownGrantType", "AuthorizationRequired", "AuthorizationExpired",
                 "Unauthorized"}

AccessDenied == {"AccessDenied", "InvalidCredentials"}

ErrOfKind(kind, message) ==
    CASE kind = "InvalidGrant" -> InvalidGrantErr(message)
      [] kind = "UnknownGrantType" -> UnknownGrantTypeErr(message)
      [] kind = "AuthorizationRequired" -> AuthorizationRequiredErr(message)
      [] kind = "AuthorizationExpired" -> AuthorizationExpiredErr(message)
      [] kind = "Unauthorized" -> UnauthorizedErr(message)
      [] kind = "AccessDenied" -> AccessDeniedErr(message)
      [] kind = "InvalidCredentials" -> InvalidCredentialsErr(message)

\* Errors that are not of the framework's erro type.
OtherErrors ==
    ("sql.ErrNoRows" :> ErrNoRows) @@ ("storage" :> ErrStorage) @@ ("bcrypt" :> ErrHash)
    @@ ("validation.Errors" :> ErrValidation) @@ ("subscriber" :> ErrSubscriber)

\* Either revision builds the response of error e.
Respond(rev, kind, e) ==
    /\ answered' = [rev |-> rev, kind |-> kind, err |-> e,
                    resp |-> IF rev = "fasthttp" THEN NewErrorJSONResponse(e) ELSE NewErrorJsonResponse(e)]
    /\ UNCHANGED <<ats, rts, now, nextTok, calls, pc, req, loc, ops, seqAfter, last, wins, config, dispatcher,
                   served, bus, tx, chain>>

InitResponse ==
    /\ Init

NextResponse ==
    \E rev \in {"fasthttp", "net/http"} :
        \/ \E kind \in Unauthorized \cup AccessDenied : \E message \in Messages :
              Respond(rev, kind, ErrOfKind(kind, message))
        \/ \E kind \in DOMAIN OtherErrors : Respond(rev, kind, OtherErrors[kind])

SpecResponse == InitResponse /\ [][NextResponse]_vars

(***************************************************************************)
(* The dispatcher specification: Configure, Subscribe calls that may run   *)
(* concurrently, and Dispatch.                                             *)
(***************************************************************************)
MaxEntries == 3      \* ListenerEntry values in an EventDispatcherConfig

MaxPriority == 1     \* the Priority values (uint8) used are 0..MaxPriority

EventNames == {"e1", "e2"}

\* The subscriber function of the k-th configured entry, and the function
\* caller p passes to Subscribe.
EntrySubscribers == <<"s1", "s2", "s3", "s4">>

CallerSubscribers == <<"f1", "f2", "f3">>

ListenerEntry(event, subscriber, priority) ==
    [Event |-> event, Subscriber |-> subscriber, Priority |-> priority]

EventDispatcherConfigs ==
    UNION {{[k \in 1..n |-> ListenerEntry(ev[k], EntrySubscribers[k], pr[k])] :
                ev \in [1..n -> EventNames], pr \in [1..n -> 0..MaxPriority]} : n \in 0..MaxEntries}

\* NewDispatcher: no subscribers.
NewDispatcher == [nil |-> FALSE, subscribers |-> <<>>]

\* Faulty variant: an entry is put before the first entry of a priority
\* that is not higher, so that equal priorities come out reversed.
InsertBeforeEqual(sorted, e) ==
    LET before == {k \in 1..Len(sorted) : \A j \in 1..k : sorted[j].Priority > e.Priority}
        n == Cardinality(before)
    IN  SubSeq(sorted, 1, n) \o <<e>> \o SubSeq(sorted, n + 1, Len(sorted))

\* One insertion of the stable sort with less(i, j) = cfg[i].Priority >
\* cfg[j].Priority: e, which came later than every entry of sorted, goes
\* before the first entry it is less than.
Insert(sorted, e) ==
    LET before == {k \in 1..Len(sorted) : \A j \in 1..k : ~(e.Priority > sorted[j].Priority)}
        n == Cardinality(before)
    IN  SubSeq(sorted, 1, n) \o <<e>> \o SubSeq(sorted, n + 1, Len(sorted))

\* sort.SliceStable(cfg, less).
RECURSIVE SliceStable(_)
SliceStable(cfg) ==
    IF cfg = <<>> THEN <<>>
    ELSE Insert(SliceStable(SubSeq(cfg, 1, Len(cfg) - 1)), cfg[Len(cfg)])

\* Subscribe, up to the Set: the slice to store for evt.
Appended(subscribers, evt, subscriber) ==
    IF evt \in DOMAIN subscribers THEN Append(subscribers[evt], subscriber) ELSE <<subscriber>>

\* d.subscribers.Set(evt, s)
Set(subscribers, evt, s) == (evt :> s) @@ subscribers

\* The loop of Configure: Subscribe for every entry, in order.
RECURSIVE SubscribeAll(_, _)
SubscribeAll(subscribers, cfg) ==
    IF cfg = <<>> THEN subscribers
    ELSE SubscribeAll(Set(subscribers, Head(cfg).Event,
                          Appended(subscribers, Head(cfg).Event, Head(cfg).Subscriber)),
                      Tail(cfg))

\* The number of subscribers doDispatch invokes, given what they return.
RECURSIVE doDispatchCalls(_)
doDispatchCalls(returns) ==
    IF returns = <<>> THEN 0
    ELSE IF Head(returns) = "nil" THEN 1 + doDispatchCalls(Tail(returns))
    ELSE 1

Configure(cfg) ==
    /\ ~bus.configured
    /\ dispatcher' = [dispatcher EXCEPT !.subscribers = SubscribeAll(dispatcher.subscribers, SliceStable(cfg))]
    /\ bus' = [bus EXCEPT !.configured = TRUE, !.cfg = cfg]
    /\ UNCHANGED <<ats, rts, now, nextTok, calls, pc, req, loc, ops, seqAfter, last, wins, config, served,
                   answered, tx, chain>>

\* Subscribe of caller p, up to and including the Get.
Subscribe_Get(p, evt) ==
    /\ bus.sub[p].pc = "idle"
    /\ bus' = [bus EXCEPT !.sub[p] = [pc |-> "set", evt |-> evt,
                                      s |-> Appended(dispatcher.subscribers, evt, CallerSubscribers[p])]]
    /\ UNCHANGED <<ats, rts, now, nextTok, calls, pc, req, loc, ops, seqAfter, last, wins, config, dispatcher,
                   served, answered, tx, chain>>

\* Subscribe of caller p: the Set, and the return.
Subscribe_Set(p) ==
    /\ bus.sub[p].pc = "set"
    /\ dispatcher' = [dispatcher EXCEPT !.subscribers = Set(dispatcher.subscribers, bus.sub[p].evt, bus.sub[p].s)]
    /\ bus' = [bus EXCEPT !.sub[p].pc = "done", !.sub[p].s = <<>>]
    /\ UNCHANGED <<ats, rts, now, nextTok, calls, pc, req, loc, ops, seqAfter, last, wins, config, served,
                   answered, tx, chain>>

\* Dispatch of an event of the given name; returns[k] is what the k-th
\* subscriber of the event returns if it is invoked.  Dispatch changes
\* nothing in the dispatcher, so one Dispatch per behaviour, at any point,
\* stands for all of them.
Dispatch(event, returns) ==
    /\ bus.dispatched = NoDispatch
    /\ bus' = [bus EXCEPT !.dispatched =
                  IF event \notin DOMAIN dispatcher.subscribers
                  THEN [event |-> event, configured |-> bus.configured, subs |-> <<>>, returns |-> <<>>,
                        invoked |-> <<>>, err |-> NoErr]
                  ELSE [event |-> event, configured |-> bus.configured,
                        subs |-> dispatcher.subscribers[event], returns |-> returns,
                        invoked |-> SubSeq(dispatcher.subscribers[event], 1, doDispatchCalls(returns)),
                        err |-> doDispatch(returns)]]
    /\ UNCHANGED <<ats, rts, now, nextTok, calls, pc, req, loc, ops, seqAfter, last, wins, config, dispatcher,
                   served, answered, tx, chain>>

\* The subscribers of an event at the Get of Dispatch (none: no entry).
SubscribersOf(event) ==
    IF event \in DOMAIN dispatcher.subscribers THEN dispatcher.subscribers[event] ELSE <<>>

InitDispatcher ==
    /\ ats = InitAccessTokens
    /\ rts = InitRefreshTokens
    /\ now = 0
    /\ nextTok = 3
    /\ calls = 0
    /\ pc = [p \in Callers |-> "idle"]
    /\ req = [p \in Callers |-> NoRequest]
    /\ loc = [p \in Callers |-> NoLoc]
    /\ ops = [p \in Callers |-> <<>>]
    /\ seqAfter = [p \in Callers |-> FALSE]
    /\ last = NoLast
    /\ wins = {}
    /\ config = <<>>
    /\ dispatcher = NewDispatcher
    /\ served = NoServed
    /\ answered = NoAnswer
    /\ bus = NoBus
    /\ tx = NoTx
    /\ chain = NoChain

NextDispatcher ==
    \/ \E cfg \in EventDispatcherConfigs : Configure(cfg)
    \/ \E p \in Callers : \E evt \in EventNames : Subscribe_Get(p, evt)
    \/ \E p \in Callers : Subscribe_Set(p)
    \/ \E event \in EventNames :
          \E returns \in [1..Len(SubscribersOf(event)) -> SubscriberReturns] : Dispatch(event, returns)

SpecDispatcher == InitDispatcher /\ [][NextDispatcher]_vars

(***************************************************************************)
(* The transaction specification: Transactions.Run called by callbacks of  *)
(* Run, with the context the callback was given.                           *)
(***************************************************************************)
MaxRuns == 3     \* Run calls in one behaviour

\* What a callback does in the end: return nil, return an error, panic
\* with a value, or panic with the nil value (the module is of go 1.17,
\* where recover then returns nil).
CallbackReturns == {"nil", "error", "panic", "panic(nil)"}

\* transaction.commit: the calls made on the sqlx.Tx so far are log.
commit(t, log) == IF t.depth # 0 THEN log ELSE Append(log, [op |-> "Commit", depth |-> t.depth])

\* transaction.rollback.
rollback(t, log) == IF t.depth # 0 THEN log ELSE Append(log, [op |-> "Rollback", depth |-> t.depth])

\* beginTransaction: the transaction of the context one level deeper, or a
\* new one at depth 0.
beginTransaction(stack) ==
    IF stack # <<>> THEN [depth |-> stack[Len(stack)].depth + 1] ELSE [depth |-> 0]

\* Run, from the return of the callback on: ret is what the callback did,
\* commitFails whether tx.Commit returns an error.
AfterCallback(t, ret, commitFails, log) ==
    IF ret = "panic(nil)" THEN log      \* recover() returns nil: the deferred function does nothing
    ELSE IF ret = "nil"
    THEN IF commitFails /\ t.depth = 0 THEN rollback(t, commit(t, log)) ELSE commit(t, log)
    ELSE rollback(t, log)

\* Run is called, by the program (outermost) or by the callback of the Run
\* in progress; beginFails: BeginTxx returns an error.
Run(beginFails) ==
    /\ tx.runs < MaxRuns
    /\ tx.stack = <<>> => tx.runs = 0
    /\ tx' = IF tx.stack = <<>> /\ beginFails
             THEN [tx EXCEPT !.runs = @ + 1, !.outer = "not begun"]
             ELSE [tx EXCEPT !.runs = @ + 1,
                             !.begun = IF tx.stack = <<>> THEN @ + 1 ELSE @,
                             !.stack = Append(@, beginTransaction(tx.stack))]
    /\ UNCHANGED <<ats, rts, now, nextTok, calls, pc, req, loc, ops, seqAfter, last, wins, config, dispatcher,
                   served, answered, bus, chain>>

\* The callback of the innermost Run in progress ends, and Run returns.
Return_Run(ret, commitFails) ==
    /\ tx.stack # <<>>
    /\ LET t == tx.stack[Len(tx.stack)]
       IN  tx' = [tx EXCEPT !.stack = SubSeq(@, 1, Len(@) - 1),
                            !.log = AfterCallback(t, ret, commitFails, @),
                            !.done = Append(@, [depth |-> t.depth, ret |-> ret]),
                            !.outer = IF t.depth = 0 THEN ret ELSE @]
    /\ UNCHANGED <<ats, rts, now, nextTok, calls, pc, req, loc, ops, seqAfter, last, wins, config, dispatcher,
                   served, answered, bus, chain>>

InitTransactions ==
    /\ Init

NextTransactions ==
    \/ \E beginFails \in BOOLEAN : Run(beginFails)
    \/ \E ret \in CallbackReturns : \E commitFails \in BOOLEAN : Return_Run(ret, commitFails)

SpecTransactions == InitTransactions /\ [][NextTransactions]_vars

(***************************************************************************)
(* The router specification: a request goes through the middleware built   *)
(* by chainMiddleware, to the handler of the route.                        *)
(***************************************************************************)
MaxMiddlewares == 3

\* A Middleware calls next and returns what it returns, or returns its own
\* response without calling next, or is the firewall.
MiddlewareKinds == {"pass", "stop", "firewall"}

Middlewares == UNION {[1..n -> MiddlewareKinds] : n \in 0..MaxMiddlewares}

StopResponse == JsonResponse(400, <<"stopped">>)

\* A Handler built by chainer is the sequence of the middlewares (their
\* indexes) it goes through before the handler of the route; <<>> is the
\* handler of the route itself.  chainer(m, n): the Handler calling m(request, n).
chainer(m, n) == <<m>> \o n

\* Faulty variant: the loop runs from the first middleware to the last, so
\* that the last one is outermost.
RECURSIVE chainFromFirst(_, _, _)
chainFromFirst(i, n, chainedHandler) ==
    IF i < 1 THEN chainedHandler
    ELSE chainFromFirst(i - 1, n, chainer(n + 1 - i, chainedHandler))

\* The loop of chainMiddleware, from middlewares[i-1] down to middlewares[0]
\* (indexes from 1 here), over n middlewares.
RECURSIVE chainFrom(_, _, _)
chainFrom(i, n, chainedHandler) ==
    IF i < 1 THEN chainedHandler
    ELSE chainFrom(i - 1, n, chainer(i, chainedHandler))

\* chainedHandler(req): the middlewares and the handler invoked, in order
\* (0: the handler of the route), and the response.
RECURSIVE Call(_, _, _, _)
Call(h, middlewares, r, env) ==
    IF h = <<>> THEN [trace |-> <<0>>, resp |-> HandlerResponse]
    ELSE LET m == Head(h)
             next == Call(Tail(h), middlewares, r, env)
             out == Handle(r, env)
         IN  IF middlewares[m] = "pass" \/ (middlewares[m] = "firewall" /\ out.nextCalled)
             THEN [trace |-> <<m>> \o next.trace, resp |-> next.resp]
             ELSE IF middlewares[m] = "firewall"
             THEN [trace |-> <<m>>, resp |-> out.resp]
             ELSE [trace |-> <<m>>, resp |-> StopResponse]

\* r.middleware(NewRequest(ctx, route), route.Handler).  The chain keeps
\* nothing between requests, so one request per behaviour stands for all.
ServeChain(middlewares, r, env) ==
    /\ chain = NoChain
    /\ chain' = [middlewares |-> middlewares, req |-> r, env |-> env,
                 trace |-> Call(chainFrom(Len(middlewares), Len(middlewares), <<>>), middlewares, r, env).trace,
                 resp |-> Call(chainFrom(Len(middlewares), Len(middlewares), <<>>), middlewares, r, env).resp]
    /\ UNCHANGED <<ats, rts, now, nextTok, calls, pc, req, loc, ops, seqAfter, last, wins, config, dispatcher,
                   served, answered, bus, tx>>

InitRouter ==
    /\ ats = FirewallAccessTokens
    /\ rts = InitRefreshTokens
    /\ now = 0
    /\ nextTok = 7
    /\ calls = 0
    /\ pc = [p \in Callers |-> "idle"]
    /\ req = [p \in Callers |-> NoRequest]
    /\ loc = [p \in Callers |-> NoLoc]
    /\ ops = [p \in Callers |-> <<>>]
    /\ seqAfter = [p \in Callers |-> FALSE]
    /\ last = NoLast
    /\ wins = {}
    /\ config \in {c \in FirewallConfigs : Len(c) <= 1}
    /\ dispatcher = NilDispatcher
    /\ served = NoServed
    /\ answered = NoAnswer
    /\ bus = NoBus
    /\ tx = NoTx
    /\ chain = NoChain

NextRouter ==
    \E middlewares \in Middlewares : \E r \in HttpRequests : \E env \in EnvsOf(r, TRUE) :
        ServeChain(middlewares, r, env)

SpecRouter == InitRouter /\ [][NextRouter]_vars

(***************************************************************************)
(* Properties of the grant engine.                                         *)
(***************************************************************************)
\* The client of request r resolves (data of the client store).
ClientValid(r) ==
    /\ r.ClientId \in ClientIds
    /\ ClientTable[r.ClientId].secret = r.ClientSecret
    /\ r.GrantType \in ClientTable[r.ClientId].grants

\* The calls that have returned.
ActiveCalls == {loc[p].call : p \in {q \in Callers : pc[q] # "idle"}}

ReturnedCalls == (1..calls) \ ActiveCalls

\* C1: the same refresh token string is never redeemed successfully twice:
\* of the calls that present one refresh token string, concurrent or not, at
\* most one returns a new token pair.
C1_RedeemedAtMostOnce == \A w1, w2 \in wins : w1[2] = w2[2] => w1 = w2

\* C2: a refresh_token call that begins after a successful redemption of the
\* refresh token string it presents never succeeds, and when its client is
\* valid and its storage calls answer, it returns Unauthorized.
C2_SequentialRedemption ==
    last.seqAfter =>
        /\ last.err # NoErr
        /\ last.resp = ZeroResponse
        /\ (ClientValid(last.req) /\ last.flt = "none") => last.err = UnauthorizedErr(<<>>)

\* A second, sequential redemption of a redeemed string returned Unauthorized.
C2_Witness ==
    /\ last.seqAfter
    /\ ClientValid(last.req)
    /\ last.flt = "none"
    /\ last.err = UnauthorizedErr(<<>>)
    /\ \E w \in wins : w[2] = last.req.RefreshToken /\ w[1] < last.call

\* C5: token issuance is all-or-nothing: once a call has returned, the access
\* token store holds a row created by that call if and only if the refresh
\* token store does.
C5_AllOrNothing ==
    \A k \in ReturnedCalls :
        (\E t \in DOMAIN ats : ats[t].call = k) <=> (\E t \in DOMAIN rts : rts[t].call = k)

\* The two causes C9 speaks of, by the data of the user store.
UnknownUsername(r) == r.Username \notin Usernames

WrongPassword(r) ==
    /\ r.Username \in Usernames
    /\ Len(UserTable[r.Username].password) = 2
    /\ UserTable[r.Username].password # Hash(r.Password)

\* C9: a password grant of a valid client with an unknown username, or with a
\* known username and a wrong password, returns the one InvalidCredentials
\* error (same type, code and message) and the zero response, and stores no
\* token.
C9_InvalidCredentialsOpaque ==
    (/\ last.req.GrantType = GrantTypePassword
     /\ ClientValid(last.req)
     /\ last.flt # "cs.FindOneByClientIdSecretAndGrantType"
     /\ (UnknownUsername(last.req) \/ WrongPassword(last.req)))
    => /\ last.err = InvalidCredentialsErr(<<>>)
       /\ last.resp = ZeroResponse
       /\ \A t \in DOMAIN ats : ats[t].call # last.call
       /\ \A t \in DOMAIN rts : rts[t].call # last.call

\* An unknown username was answered with InvalidCredentials, the answer a
\* wrong password gets.
C9_Witness ==
    /\ last.req.GrantType = GrantTypePassword
    /\ UnknownUsername(last.req)
    /\ last.flt = "none"
    /\ last.ops = <<"cs.FindOneByClientIdSecretAndGrantType", "up.FindUserByUsername">>
    /\ last.err = InvalidCredentialsErr(<<>>)
    /\ UserCredentialsErr(FindUserByUsername("u1", FALSE), "bad") = last.err

\* C10: an internal storage failure (not a not-found result) of a lookup, or a
\* failing password-hash check, is never reported to the caller as
\* InvalidCredentials or Unauthorized.
C10_StorageFailureDistinct ==
    (\/ last.flt # "none"
     \/ /\ last.req.GrantType = GrantTypePassword
        /\ last.req.Username \in Usernames
        /\ IsPasswordValid(UserTable[last.req.Username].password, last.req.Password).err # NoErr
        /\ Len(last.ops) = 2)
    => /\ last.err # InvalidCredentialsErr(<<>>)
       /\ last.err # UnauthorizedErr(<<>>)

(***************************************************************************)
(* Properties of the firewall and the OAuth authenticator.                 *)
(***************************************************************************)
\* A request has been served and i is the Area its path matches first.
ServedBy(i) == served # NoServed /\ i = FirstMatch(1, served.req.Path)

\* What the subscribers of the two firewall events answered for the served
\* request (the net/http revision dispatches no events).
BeforeAuthErr ==
    IF served.rev = "fasthttp"
    THEN dispatchEventSilent(dispatcher, BeforeAuthEventName, served.env.before) ELSE NoErr

AfterAuthErr ==
    IF served.rev = "fasthttp"
    THEN dispatchEventSilent(dispatcher, AfterAuthEventName, served.env.after) ELSE NoErr

OAuthCalled ==
    /\ served # NoServed
    /\ served.out.auth.called
    /\ config[FirstMatch(1, served.req.Path)].Authenticator = "oauth"

\* C7: an access token that is found in storage but expired is rejected with
\* AuthorizationExpired after the token lookup alone (no client, no subject
\* lookup), and the request does not pass.
C7_ExpiredTokenRejected ==
    (/\ OAuthCalled
     /\ Len(served.req.Authorization) = 2
     /\ served.env.failAt # "ats"
     /\ served.req.Authorization[2] \in DOMAIN ats
     /\ Expired(ats[served.req.Authorization[2]], served.time))
    => /\ served.out.auth.err = AuthorizationExpiredErr(<<>>)
       /\ served.out.auth.token = NilToken
       /\ served.out.auth.lookups = <<"ats.FindOneByToken">>
       /\ ~served.out.nextCalled

\* An expired access token of the store was presented and rejected.
C7_Witness ==
    /\ OAuthCalled
    /\ served.req.Authorization = <<"Bearer", "tok1">>
    /\ served.time >= ats["tok1"].ExpiresAt
    /\ served.out.auth.err = AuthorizationExpiredErr(<<>>)

\* C8: an absent or empty Authorization header, and one with more than two
\* space-separated parts, are answered with AuthorizationRequired before any
\* storage lookup.
C8_MalformedHeaderBeforeLookup ==
    (/\ OAuthCalled
     /\ served.req.Authorization = <<>> \/ Len(served.req.Authorization) > 2)
    => /\ served.out.auth.err = AuthorizationRequiredErr(<<>>)
       /\ served.out.auth.token = NilToken
       /\ served.out.auth.lookups = <<>>
       /\ ~served.out.auth.panicked

\* A header of three parts was rejected without a lookup.
C8_Witness ==
    /\ OAuthCalled
    /\ Len(served.req.Authorization) = 3
    /\ served.out.auth.err = AuthorizationRequiredErr(<<>>)
    /\ served.out.auth.lookups = <<>>

(***************************************************************************)
(* Properties of the grant engine: gates, refresh, issuance.               *)
(***************************************************************************)
\* A call has returned and last describes it.
HasReturned == last.call > 0

\* The call that returned last created no token row.
NoRowOfLast ==
    /\ \A t \in DOMAIN ats : ats[t].call # last.call
    /\ \A t \in DOMAIN rts : rts[t].call # last.call

\* C11: a grant type outside {password, refresh_token, client_credentials}
\* is answered with UnknownGrantType before any storage operation.
C11_UnknownGrantTypeBeforeStorage ==
    (HasReturned /\ GrantSwitch(last.req.GrantType) = "unknown") =>
        /\ last.err = UnknownGrantTypeErr(<<>>)
        /\ last.ops = <<>>

\* C12: when the client does not resolve by (clientId, clientSecret,
\* grantType), or its lookup fails, the call returns InvalidGrant after the
\* client lookup alone and creates no token.
C12_ClientGateFirst ==
    (HasReturned /\ (~ClientValid(last.req) \/ last.flt = "cs.FindOneByClientIdSecretAndGrantType")) =>
        /\ last.err = InvalidGrantErr(<<>>)
        /\ last.resp = ZeroResponse
        /\ last.ops = <<"cs.FindOneByClientIdSecretAndGrantType">>
        /\ NoRowOfLast

\* A password grant with a wrong client secret was refused with InvalidGrant.
C12_Witness ==
    /\ HasReturned
    /\ last.req.GrantType = GrantTypePassword
    /\ ~ClientValid(last.req)
    /\ last.err = InvalidGrantErr(<<>>)
    /\ last.ops = <<"cs.FindOneByClientIdSecretAndGrantType">>

\* C13: a refresh_token grant of a valid client that fails although no
\* storage call failed internally (the token string is not in the store, or
\* its row is expired or used) returns Unauthorized and creates no token.
C13_RefreshRejectedUnauthorized ==
    (/\ HasReturned
     /\ last.req.GrantType = GrantTypeRefreshToken
     /\ ClientValid(last.req)
     /\ last.flt = "none"
     /\ last.err # NoErr)
    => /\ last.err = UnauthorizedErr(<<>>)
       /\ last.resp = ZeroResponse
       /\ NoRowOfLast

\* The call that returned last is a successful refresh_token grant.
RefreshSucceeded(l) ==
    /\ l.call > 0
    /\ l.req.GrantType = GrantTypeRefreshToken
    /\ l.err = NoErr

\* C14: when a refresh_token grant returns successfully, the refresh token
\* it returns is a string other than the redeemed one, its row has just been
\* stored and is unexpired, and the row of the redeemed token is expired.
C14_FullRotation ==
    [][(last' # last /\ RefreshSucceeded(last')) =>
            /\ last'.resp.RefreshToken # last'.req.RefreshToken
            /\ last'.resp.RefreshToken \notin DOMAIN rts
            /\ last'.resp.RefreshToken \in DOMAIN rts'
            /\ ~Expired(rts'[last'.resp.RefreshToken], now')
            /\ last'.req.RefreshToken \in DOMAIN rts'
            /\ Expired(rts'[last'.req.RefreshToken], now')
            /\ rts'[last'.req.RefreshToken].expired]_vars

\* A refresh grant returned a new stored refresh token and the redeemed one
\* is marked expired.
C14_Witness ==
    /\ RefreshSucceeded(last)
    /\ last.req.RefreshToken = "tok2"
    /\ last.resp.RefreshToken \in DOMAIN rts \ {"tok2"}
    /\ rts["tok2"].expired
    /\ ~rts[last.resp.RefreshToken].expired

PasswordMatches(r) ==
    /\ r.Username \in Usernames
    /\ UserTable[r.Username].password = Hash(r.Password)

\* C16: a password grant of a valid client with a username whose password
\* matches the stored hash, no storage call failing, returns no error and the
\* strings of an access token row and a refresh token row that this call
\* stored, both bound to the user's id and the client's id.
C16_PasswordGrantIssues ==
    (/\ HasReturned
     /\ last.req.GrantType = GrantTypePassword
     /\ ClientValid(last.req)
     /\ PasswordMatches(last.req)
     /\ last.flt = "none")
    => /\ last.err = NoErr
       /\ last.resp.AccessToken \in DOMAIN ats
       /\ last.resp.RefreshToken \in DOMAIN rts
       /\ last.resp.AccessToken # last.resp.RefreshToken
       /\ ats[last.resp.AccessToken].call = last.call
       /\ rts[last.resp.RefreshToken].call = last.call
       /\ ats[last.resp.AccessToken].UserId = UserTable[last.req.Username].id
       /\ rts[last.resp.RefreshToken].UserId = UserTable[last.req.Username].id
       /\ ats[last.resp.AccessToken].ClientId = last.req.ClientId
       /\ rts[last.resp.RefreshToken].ClientId = last.req.ClientId

\* User u1 obtained a token pair through client c1 with the right password.
C16_Witness ==
    /\ HasReturned
    /\ last.req.GrantType = GrantTypePassword
    /\ last.req.Username = "u1"
    /\ last.req.Password = "pw1"
    /\ last.err = NoErr
    /\ ats[last.resp.AccessToken].UserId = "u1"
    /\ rts[last.resp.RefreshToken].ClientId = "c1"

\* What the authenticator answers now to the access token string the call
\* that returned last has issued, every storage answering.
AuthorizeIssued == Authorize(<<"Bearer", last.resp.AccessToken>>, "none")

\* C17: a client_credentials grant of a valid client, no storage call
\* failing, stores an access token row and a refresh token row without user
\* id and with the id of the requesting client; while the access token is
\* unexpired the authenticator resolves it to that client and no user.
C17_ClientCredentialsNoSubject ==
    (/\ HasReturned
     /\ last.req.GrantType = ClientCredentials
     /\ ClientValid(last.req)
     /\ last.flt = "none")
    => /\ last.err = NoErr
       /\ last.resp.AccessToken \in DOMAIN ats
       /\ last.resp.RefreshToken \in DOMAIN rts
       /\ ats[last.resp.AccessToken].call = last.call
       /\ rts[last.resp.RefreshToken].call = last.call
       /\ ats[last.resp.AccessToken].UserId = Nil
       /\ rts[last.resp.RefreshToken].UserId = Nil
       /\ ats[last.resp.AccessToken].ClientId = last.req.ClientId
       /\ rts[last.resp.RefreshToken].ClientId = last.req.ClientId
       /\ ~Expired(ats[last.resp.AccessToken], now) =>
            /\ AuthorizeIssued.err = NoErr
            /\ AuthorizeIssued.token = NewOauthToken(last.req.ClientId, Nil)
            /\ AuthorizeIssued.lookups = <<"ats.FindOneByToken", "cs.Find">>

\* Client c2 obtained a pair for itself and its access token authenticates
\* as c2 without a user.
C17_Witness ==
    /\ HasReturned
    /\ last.req.GrantType = ClientCredentials
    /\ last.req.ClientId = "c2"
    /\ last.err = NoErr
    /\ ats[last.resp.AccessToken].UserId = Nil
    /\ AuthorizeIssued.err = NoErr
    /\ AuthorizeIssued.token.user = Nil
    /\ AuthorizeIssued.token.client = "c2"

(***************************************************************************)
(* Properties of the firewall: the order of the Areas, open Areas, the     *)
(* classification of authenticator errors.                                 *)
(***************************************************************************)
\* A request has been served and Area i is the first, in the configured
\* order, whose pattern matches its path.
FirstMatching(i) ==
    /\ served # NoServed
    /\ i \in 1..Len(config)
    /\ MatchString(config[i].Pattern, served.req.Path)
    /\ \A j \in 1..(i - 1) : ~MatchString(config[j].Pattern, served.req.Path)

\* What Handle does for Area i alone, in the revision that served the request.
OutcomeOfArea(i) ==
    IF ~config[i].Secure THEN OpenArea(i, config[i], served.req, served.env)
    ELSE IF served.rev = "fasthttp" THEN SecureArea(i, config[i], served.req, served.env)
    ELSE SecureAreaNetHTTP(i, config[i], served.req, served.env)

C19_OpenAreaPassesUnidentified ==
    \A i \in 1..Len(config) :
        (FirstMatching(i) /\ ~config[i].Secure) =>
            /\ served.out.nextCalled
            /\ served.out.steps = <<"next">>
            /\ ~served.out.auth.called
            /\ served.out.auth = NoAuth
            /\ served.out.ctx = NilToken
            /\ served.out.resp = HandlerResponse
            /\ served.status = 200

\* An open Area that has the OAuth authenticator let a request without
\* Authorization header pass, with a dispatcher configured.
C19_Witness ==
    /\ FirstMatching(1)
    /\ ~config[1].Secure
    /\ config[1].Authenticator = "oauth"
    /\ ~dispatcher.nil
    /\ served.req.Path = <<"public", "x">>
    /\ served.req.Authorization = <<>>
    /\ served.out.steps = <<"next">>
    /\ served.status = 200

\* C20: when the authenticator of the first matching, secure Area returns an
\* error, next is not called and the response is an AccessDenied (403) or an
\* Unauthorized (401) one; when the OAuth authenticator was given no
\* Authorization header the status is 401.
C20_AuthErrorClassified ==
    \A i \in 1..Len(config) :
        (/\ FirstMatching(i) /\ config[i].Secure
         /\ served.out.auth.called
         /\ ~served.out.auth.panicked
         /\ served.out.auth.err # NoErr)
        => /\ ~served.out.nextCalled
           /\ served.status \in {401, 403}
           /\ (config[i].Authenticator = "oauth" /\ served.req.Authorization = <<>>)
                => served.status = 401

(***************************************************************************)
(* Properties of the firewall: what a failed authentication shows, and the *)
(* SecurityContext of a successful one.                                    *)
(***************************************************************************)
\* The authenticator of the first matching, secure Area i was called for the
\* served request and returned an error.
AuthenticationFailed(i) ==
    /\ FirstMatching(i)
    /\ config[i].Secure
    /\ served.out.auth.called
    /\ ~served.out.auth.panicked
    /\ served.out.auth.err # NoErr

\* The same failure of the authenticator with another internal message.
OtherMessage(auth) == [auth EXCEPT !.err.Message = <<"another internal message">>]

\* C21: the payload of the response to a failed authentication is the same
\* for two failures that differ only in the message of the authenticator's
\* error.
C21_FailurePayloadOpaque ==
    \A i \in 1..Len(config) :
        (AuthenticationFailed(i) /\ served.rev = "fasthttp") =>
            AfterAuthenticate(i, served.out.steps, OtherMessage(served.out.auth), served.env).resp.payload
                = served.out.resp.payload

\* The SecurityContext is put on the request at a step before next.
AttachedBeforeNext(steps) ==
    \E a, n \in 1..Len(steps) :
        /\ steps[a] \in {"SetUserValue", "WithContext"}
        /\ steps[n] = "next"
        /\ a < n

\* C22: when the authenticator of the first matching, secure Area returns a
\* token and no error (and no subscriber of the after-auth event fails), next
\* is invoked, the SecurityContext was attached before it, and FromContext
\* on the request returns ok and exactly the token the authenticator returned.
C22_SecurityContextAttached ==
    \A i \in 1..Len(config) :
        (/\ FirstMatching(i) /\ config[i].Secure
         /\ served.out.auth.called
         /\ ~served.out.auth.panicked
         /\ served.out.auth.err = NoErr
         /\ served.out.auth.token # NilToken
         /\ AfterAuthErr = NoErr)
        => /\ served.out.nextCalled
           /\ AttachedBeforeNext(served.out.steps)
           /\ FromContext(served.out.ctx).ok
           /\ FromContext(served.out.ctx).s.Token = served.out.auth.token

\* The handler of a secure Area ran for the bearer of tok1 and finds the
\* OAuth token of client c1 and user u1 in the request scope.
C22_Witness ==
    /\ FirstMatching(1)
    /\ config[1].Secure
    /\ served.rev = "fasthttp"
    /\ ~dispatcher.nil
    /\ served.req.Authorization = <<"Bearer", "tok1">>
    /\ served.out.nextCalled
    /\ FromContext(served.out.ctx).ok
    /\ FromContext(served.out.ctx).s.Token = NewOauthToken("c1", "u1")

(***************************************************************************)
(* Properties of the OAuth token and of the round trip from the grant to   *)
(* the firewall.                                                           *)
(***************************************************************************)
\* User() of an OAuth token as the handler of revision rev calls it.
GuardUser(rev, o) == IF rev = "fasthttp" THEN UserFastHTTP(o) ELSE User(o)

\* C23: the token a successful OAuth authentication returns has Provider()
\* "oauth", and its User() is the subject of the access token's subject id,
\* or absent when the access token has none.
C23_GuardTokenIdentity ==
    (/\ OAuthCalled
     /\ ~served.out.auth.panicked
     /\ served.out.auth.err = NoErr)
    => /\ Len(served.req.Authorization) = 2
       /\ served.req.Authorization[2] \in DOMAIN ats
       /\ Provider(served.out.auth.token) = "oauth"
       /\ GuardUser(served.rev, served.out.auth.token) = ats[served.req.Authorization[2]].UserId

\* A secure Area for every path, protected by the OAuth authenticator, and
\* what Handle of revision rev does there for a request that presents the
\* access token string t, every storage answering.
ProtectedArea == [Secure |-> TRUE, Pattern |-> <<>>, Authenticator |-> "oauth"]

HandledBy(rev, t) ==
    IF rev = "fasthttp"
    THEN SecureArea(1, ProtectedArea, HttpRequest(<<"private", "x">>, <<"Bearer", t>>), NoEnv)
    ELSE SecureAreaNetHTTP(1, ProtectedArea, HttpRequest(<<"private", "x">>, <<"Bearer", t>>), NoEnv)

\* C24: the access token of a successful GrantAccessToken call, presented
\* before its expiry to a secure Area of the OAuth authenticator, is accepted:
\* next runs with a SecurityContext whose token gives the client and the
\* subject (or none) the access token was issued for.
C24_IssuedTokenAccepted ==
    (/\ HasReturned
     /\ last.err = NoErr
     /\ ~Expired(ats[last.resp.AccessToken], now))
    => \A rev \in {"fasthttp", "net/http"} :
          /\ HandledBy(rev, last.resp.AccessToken).nextCalled
          /\ FromContext(HandledBy(rev, last.resp.AccessToken).ctx).ok
          /\ Provider(HandledBy(rev, last.resp.AccessToken).ctx) = "oauth"
          /\ HandledBy(rev, last.resp.AccessToken).ctx.client = ats[last.resp.AccessToken].ClientId
          /\ GuardUser(rev, HandledBy(rev, last.resp.AccessToken).ctx) = ats[last.resp.AccessToken].UserId

(***************************************************************************)
(* Properties of the refresh token rows, the error responses, the expiry   *)
(* values and the gates of the grant.                                      *)
(***************************************************************************)
\* C25: every refresh token row has been written by Update at most once, and
\* exactly the rows written are marked expired (a row is not un-expired and
\* not deleted: rows leave the store by no operation).
C25_RefreshRowMutatedOnce ==
    \A t \in DOMAIN rts :
        /\ rts[t].updates <= 1
        /\ rts[t].expired <=> rts[t].updates = 1

(***************************************************************************)
(* Frame of the access tokens.                                             *)
(***************************************************************************)
\* The access token issued together with refresh token t (by the same call).
PairedAccessTokens(t) == {a \in DOMAIN ats : ats[a].call = rts[t].call}

\* C31: no step of the grant engine modifies an access token row that is
\* stored, and while the clock stands the authenticator answers every stored
\* access token as before the step; in particular the step of a
\* refresh_token redemption that expires the refresh token leaves the access
\* token paired with it unchanged and accepted as before.
C31_AccessTokensUnchanged ==
    [][/\ \A a \in DOMAIN ats : a \in DOMAIN ats' /\ ats'[a] = ats[a]
       /\ now' = now =>
              \A a \in DOMAIN ats :
                  Authorize(<<"Bearer", a>>, "none")' = Authorize(<<"Bearer", a>>, "none")]_vars

\* A refresh token has been redeemed and the access token issued with it is
\* still accepted.
C31_Witness ==
    /\ RefreshSucceeded(last)
    /\ rts[last.req.RefreshToken].expired
    /\ PairedAccessTokens(last.req.RefreshToken) # {}
    /\ \A a \in PairedAccessTokens(last.req.RefreshToken) :
           /\ ~ats[a].expired
           /\ Authorize(<<"Bearer", a>>, "none").err = NoErr

(***************************************************************************)
(* Properties of the order of the steps of one authentication.             *)
(***************************************************************************)
\* The storage lookups of one authentication, in their order.
LookupOrder == <<"ats.FindOneByToken", "cs.Find", "up.FindUserByID">>

\* The step of the served authentication that fails first (0: the header
\* check, 1: the access-token lookup or the expiry check, 2: the client
\* lookup, 3: the subject lookup), or 4 when no step fails; 5 for a header
\* of a single part, where token[1] is out of range.
FirstFailingStep ==
    LET h == served.req.Authorization
        row == ats[h[2]]
    IN  IF h = <<>> \/ Len(h) > 2 THEN 0
        ELSE IF Len(h) < 2 THEN 5
        ELSE IF served.env.failAt = "ats" \/ h[2] \notin DOMAIN ats THEN 1
        ELSE IF Expired(row, served.time) THEN 1
        ELSE IF Find(row.ClientId, served.env.failAt = "cs").err # NoErr THEN 2
        ELSE IF row.UserId # Nil /\ FindUserByID(row.UserId, served.env.failAt = "up").err # NoErr THEN 3
        ELSE 4

\* C30: one OAuth authentication performs its lookups in the order access
\* token, client, subject, each at most once, and stops at the first
\* failing step: a failing header check returns an error with no lookup, a
\* failing token lookup or expiry check after the token lookup alone, a
\* failing client lookup after two lookups, a failing subject lookup after
\* three; only when no step fails is a token returned.
C30_StepsInOrderNoRetry ==
    (OAuthCalled /\ ~served.out.auth.panicked) =>
        LET a == served.out.auth
            n == Len(a.lookups)
            f == FirstFailingStep
        IN  /\ n <= Len(LookupOrder)
            /\ a.lookups = SubSeq(LookupOrder, 1, n)
            /\ f < 4 => (a.err # NoErr /\ a.token = NilToken /\ n = f)
            /\ f = 4 => (a.err = NoErr /\ a.token # NilToken /\ n >= 2)

C30_Witness ==
    /\ OAuthCalled
    /\ served.env.failAt = "cs"
    /\ FirstFailingStep = 2
    /\ served.out.auth.lookups = <<"ats.FindOneByToken", "cs.Find">>
    /\ served.out.auth.err = ErrStorage

\* C32: for every Authorization header the OAuth authenticator returns
\* normally, with a token or with an error: the attempt never panics, and a
\* non-empty header of a single part is answered with an error.
C32_AuthenticatorReturnsNormally ==
    OAuthCalled =>
        /\ ~served.out.auth.panicked
        /\ (served.out.auth.token # NilToken) # (served.out.auth.err # NoErr)
        /\ Len(served.req.Authorization) = 1 => served.out.auth.err # NoErr

(***************************************************************************)
(* Properties of the firewall events.                                      *)
(***************************************************************************)
\* The positions of step x in the steps of the served request.
PositionsOf(x) == {k \in 1..Len(served.out.steps) : served.out.steps[k] = x}

\* Every step x comes strictly before every step y.
StrictlyBefore(x, y) == \A a \in PositionsOf(x), b \in PositionsOf(y) : a < b

\* The served request reached a secure Area with an Authenticator, in the
\* revision of the firewall that dispatches events, with a dispatcher.
SecureAreaWithEvents ==
    /\ served # NoServed
    /\ served.rev = "fasthttp"
    /\ ~dispatcher.nil
    /\ FirstMatch(1, served.req.Path) > 0
    /\ config[FirstMatch(1, served.req.Path)].Secure
    /\ config[FirstMatch(1, served.req.Path)].Authenticator # Nil

\* C34: in a secure Area the before-auth event is dispatched once, strictly
\* before Authenticate; the after-auth event is dispatched only after an
\* authentication that returned a token and no error, strictly before the
\* SecurityContext is attached and next is invoked; when a subscriber of
\* either event returns an error other than the stop, the response is the
\* internal error, next is not invoked, and for the before-auth event
\* Authenticate is not called.
C34_EventsAroundAuthenticate ==
    SecureAreaWithEvents =>
        /\ Cardinality(PositionsOf(BeforeAuthEventName)) = 1
        /\ served.out.steps[1] = BeforeAuthEventName
        /\ StrictlyBefore(BeforeAuthEventName, "Authenticate")
        /\ served.out.auth.called <=> PositionsOf("Authenticate") # {}
        /\ PositionsOf(AfterAuthEventName) # {} =>
               /\ served.out.auth.called
               /\ ~served.out.auth.panicked
               /\ served.out.auth.err = NoErr
               /\ served.out.auth.token # NilToken
               /\ StrictlyBefore("Authenticate", AfterAuthEventName)
               /\ StrictlyBefore(AfterAuthEventName, "SetUserValue")
               /\ StrictlyBefore(AfterAuthEventName, "next")
        /\ served.out.nextCalled => PositionsOf(AfterAuthEventName) # {}
        /\ BeforeAuthErr # NoErr =>
               /\ served.out.resp = NewErrorJSONResponse(InternalServerErr(ErrorString(BeforeAuthErr)))
               /\ served.status = 500
               /\ ~served.out.nextCalled
               /\ ~served.out.auth.called
        /\ (PositionsOf(AfterAuthEventName) # {} /\ AfterAuthErr # NoErr) =>
               /\ served.out.resp = NewErrorJSONResponse(InternalServerErr(ErrorString(AfterAuthErr)))
               /\ served.status = 500
               /\ ~served.out.nextCalled
               /\ PositionsOf("SetUserValue") = {}
        /\ served.env.before = <<"stopped">> => served.out.auth.called

\* A subscriber of the after-auth event failed after a successful
\* authentication.
C34_Witness ==
    /\ SecureAreaWithEvents
    /\ served.out.steps = <<BeforeAuthEventName, "Authenticate", AfterAuthEventName>>
    /\ served.out.auth.token # NilToken
    /\ served.env.after = <<"error">>
    /\ served.status = 500
    /\ ~served.out.nextCalled

(***************************************************************************)
(* Properties of the event dispatcher.                                     *)
(***************************************************************************)
\* The configured entry of subscriber x (0: x was not configured).
EntryOf(x) ==
    IF \E k \in 1..Len(bus.cfg) : bus.cfg[k].Subscriber = x
    THEN CHOOSE k \in 1..Len(bus.cfg) : bus.cfg[k].Subscriber = x
    ELSE 0

\* Entry a of the configuration is to be invoked before entry b.
Precedes(a, b) ==
    \/ bus.cfg[a].Priority > bus.cfg[b].Priority
    \/ bus.cfg[a].Priority = bus.cfg[b].Priority /\ a < b

\* No Subscribe call has begun besides those of Configure.
OnlyConfigured == \A p \in Callers : bus.sub[p].pc = "idle"

\* The event was dispatched after Configure.
DispatchedAfterConfigure ==
    /\ bus.dispatched # NoDispatch
    /\ bus.dispatched.configured

\* C35: a Dispatch after Configure invokes configured subscribers in order
\* of descending Priority, equal priorities in their configured order, and
\* only subscribers registered under the name of the event; when no other
\* Subscribe call was made and no subscriber returns an error, every entry
\* configured for the event is invoked; an event without subscribers
\* invokes nothing and returns nil.
C35_DispatchByPriority ==
    DispatchedAfterConfigure =>
        LET d == bus.dispatched
            inv == d.invoked
        IN  /\ \A a, b \in 1..Len(inv) :
                    (a < b /\ EntryOf(inv[a]) > 0 /\ EntryOf(inv[b]) > 0)
                        => Precedes(EntryOf(inv[a]), EntryOf(inv[b]))
            /\ \A a \in 1..Len(inv) :
                    \/ EntryOf(inv[a]) > 0 /\ bus.cfg[EntryOf(inv[a])].Event = d.event
                    \/ \E p \in Callers : inv[a] = CallerSubscribers[p] /\ bus.sub[p].evt = d.event
            /\ (OnlyConfigured /\ \A k \in 1..Len(d.returns) : d.returns[k] = "nil") =>
                    \A k \in 1..Len(bus.cfg) :
                        bus.cfg[k].Event = d.event => \E a \in 1..Len(inv) : inv[a] = bus.cfg[k].Subscriber
            /\ (OnlyConfigured /\ \A k \in 1..Len(bus.cfg) : bus.cfg[k].Event # d.event) =>
                    (inv = <<>> /\ d.err = NoErr)

\* Three entries of one event, the first of the lower priority.
C35_Witness ==
    /\ DispatchedAfterConfigure
    /\ OnlyConfigured
    /\ bus.cfg = <<ListenerEntry("e1", "s1", 0), ListenerEntry("e1", "s2", 1), ListenerEntry("e1", "s3", 1)>>
    /\ bus.dispatched.event = "e1"
    /\ bus.dispatched.invoked = <<"s2", "s3", "s1">>

\* The first subscriber of the dispatch that does not return nil (0: none).
FirstNotNil(returns) ==
    IF \A k \in 1..Len(returns) : returns[k] = "nil" THEN 0
    ELSE CHOOSE k \in 1..Len(returns) :
            /\ returns[k] # "nil"
            /\ \A j \in 1..(k - 1) : returns[j] = "nil"

\* C36: when a subscriber returns ErrEventStopped, Dispatch invokes no later
\* subscriber and returns nil; when one returns another error, Dispatch
\* invokes no later subscriber and returns that error; otherwise every
\* subscriber of the event is invoked exactly once and Dispatch returns nil.
C36_StopAndErrorEndDispatch ==
    bus.dispatched # NoDispatch =>
        LET d == bus.dispatched
            f == FirstNotNil(d.returns)
        IN  /\ \A a, b \in 1..Len(d.invoked) : d.invoked[a] = d.invoked[b] => a = b
            /\ f = 0 => (d.invoked = d.subs /\ d.err = NoErr)
            /\ f > 0 =>
                  /\ d.invoked = SubSeq(d.subs, 1, f)
                  /\ d.returns[f] = "stopped" => d.err = NoErr
                  /\ d.returns[f] = "error" => d.err = ErrSubscriber

\* The second of three subscribers stopped the event.
C36_Witness ==
    /\ bus.dispatched.returns = <<"nil", "stopped", "nil">>
    /\ Len(bus.dispatched.invoked) = 2
    /\ Len(bus.dispatched.subs) = 3
    /\ bus.dispatched.err = NoErr

\* C37: every function whose Subscribe call has returned is in the
\* subscriber list of its event, whether or not the calls ran concurrently.
C37_NoLostSubscription ==
    \A p \in Callers :
        bus.sub[p].pc = "done" =>
            /\ bus.sub[p].evt \in DOMAIN dispatcher.subscribers
            /\ \E k \in 1..Len(dispatcher.subscribers[bus.sub[p].evt]) :
                   dispatcher.subscribers[bus.sub[p].evt][k] = CallerSubscribers[p]

(***************************************************************************)
(* Properties of nested transactions.                                      *)
(***************************************************************************)
\* The operations applied to the database transaction.
Applied(op) == \E k \in 1..Len(tx.log) : tx.log[k].op = op

\* C38: for nested Run calls sharing one context the database transaction
\* is begun once; commit and rollback are applied to it by the Run of depth
\* 0 only, so nothing is applied while a Run is in progress, whatever the
\* nested callbacks returned; it is committed if and only if the outermost
\* callback returns nil, and rolled back if the outermost callback returns
\* an error or panics, with any value.
C38_OutermostRunDecides ==
    /\ tx.begun <= 1
    /\ tx.stack # <<>> => tx.begun = 1
    /\ \A k \in 1..Len(tx.log) : tx.log[k].depth = 0
    /\ tx.stack # <<>> => tx.log = <<>>
    /\ Applied("Commit") <=> tx.outer = "nil"
    /\ tx.outer \in {"error", "panic", "panic(nil)"} => Applied("Rollback")
    /\ tx.outer = "not begun" => (tx.begun = 0 /\ tx.log = <<>>)
    /\ Len(tx.log) <= 2

(***************************************************************************)
(* Properties of the middleware chain.                                     *)
(***************************************************************************)
\* Middleware i of the request served through the chain calls its next.
CallsNext(i) ==
    \/ chain.middlewares[i] = "pass"
    \/ chain.middlewares[i] = "firewall" /\ Handle(chain.req, chain.env).nextCalled

\* C39: the chain invokes the middlewares in their configured order from
\* the first, then the handler of the route; a middleware or the handler is
\* invoked only if every earlier middleware calls its next, and then it is
\* invoked, once; so a firewall that returns without calling next keeps the
\* handler from running.
C39_ChainInOrder ==
    chain # NoChain =>
        LET n == Len(chain.middlewares)
            t == chain.trace
        IN  /\ \A k \in 1..Len(t) : t[k] = IF k <= n THEN k ELSE 0
            /\ \A i \in 1..n :
                   (\E k \in 1..Len(t) : t[k] = i) <=> \A j \in 1..(i - 1) : CallsNext(j)
            /\ (\E k \in 1..Len(t) : t[k] = 0) <=> \A j \in 1..n : CallsNext(j)
            /\ (\E j \in 1..n : chain.middlewares[j] = "firewall" /\ ~CallsNext(j)) =>
                   chain.resp # HandlerResponse

\* A firewall in the second place refuses the request: the first
\* middleware and the firewall ran, the third middleware and the handler
\* did not.
C39_Witness ==
    /\ chain.middlewares = <<"pass", "firewall", "pass">>
    /\ ~CallsNext(2)
    /\ chain.trace = <<1, 2>>
    /\ chain.resp.code = 403

(***************************************************************************)
(* Properties of the issued expiries.                                      *)
(***************************************************************************)
\* C27: every token row is stored with the expiry of its issue time (the
\* clock when it is created) plus its configured TTL, accessTokenTTL for an
\* access token and refreshTokenTTL for a refresh token, and a successful
\* response carries the epoch seconds of the two stored expiries.
C27_ExpiryIsIssueTimePlusTTL ==
    [][/\ \A t \in DOMAIN ats' \ DOMAIN ats : ats'[t].ExpiresAt = now + accessTokenTTL
       /\ \A t \in DOMAIN rts' \ DOMAIN rts : rts'[t].ExpiresAt = now + refreshTokenTTL
       /\ (last' # last /\ last'.err = NoErr) =>
              /\ last'.resp.AccessToken \in DOMAIN ats'
              /\ last'.resp.RefreshToken \in DOMAIN rts' \ DOMAIN rts
              /\ last'.resp.AccessTokenExpiresAt = Unix(ats'[last'.resp.AccessToken].ExpiresAt)
              /\ last'.resp.RefreshTokenExpiresAt = Unix(rts'[last'.resp.RefreshToken].ExpiresAt)]_vars

\* A successful grant whose two tokens were issued at different clock values.
C27_Witness ==
    /\ HasReturned
    /\ last.err = NoErr
    /\ last.resp.AccessTokenExpiresAt = Unix(ats[last.resp.AccessToken].ExpiresAt)
    /\ last.resp.RefreshTokenExpiresAt = Unix(rts[last.resp.RefreshToken].ExpiresAt)
    /\ rts[last.resp.RefreshToken].ExpiresAt - refreshTokenTTL
           > ats[last.resp.AccessToken].ExpiresAt - accessTokenTTL

(***************************************************************************)
(* Properties of a failing refresh grant.                                  *)
(***************************************************************************)
\* The returned call l has written its refresh token row with rts.Update.
ConsumedBy(l) == \E i \in 1..Len(l.ops) : l.ops[i] = "rts.Update" /\ l.flt # "rts.Update"

\* C29: a refresh_token grant that returns an error has not consumed the
\* presented refresh token: the call has not written the row, with its
\* expired flag set, through rts.Update.
C29_FailedRefreshNotConsumed ==
    (/\ HasReturned
     /\ last.req.GrantType = GrantTypeRefreshToken
     /\ last.err # NoErr)
    => ~ConsumedBy(last)

\* C33: a refresh_token grant whose validated client is not the client
\* recorded in the presented refresh token does not succeed and does not
\* expire that token.
C33_RefreshBoundToClient ==
    (/\ HasReturned
     /\ last.req.GrantType = GrantTypeRefreshToken
     /\ ClientValid(last.req)
     /\ last.req.RefreshToken \in DOMAIN rts
     /\ rts[last.req.RefreshToken].ClientId # last.req.ClientId)
    => /\ last.err # NoErr
       /\ ~ConsumedBy(last)

(***************************************************************************)
(* Properties of the error responses.                                      *)
(***************************************************************************)
\* The status codes of the claim: 401 for the Unauthorized kinds, 403 for
\* AccessDenied and InvalidCredentials.
CodeOfKind(kind) == IF kind \in Unauthorized THEN 401 ELSE 403

\* C26 as stated: every authentication kind gives its code whatever the
\* message, and every error that is not of the framework's type gives 500.
C26_StableCodeOther500 ==
    answered.rev # Nil =>
        IF answered.kind \in Unauthorized \cup AccessDenied
        THEN answered.resp.code = CodeOfKind(answered.kind)
        ELSE answered.resp.code = 500

\* C26, amended: every authentication kind gives its code whatever the
\* message; an error that is not of the framework's type gives 500, except
\* in NewErrorJSONResponse, which gives validation errors 422 and
\* sql.ErrNoRows 404.
C26_StableCode ==
    answered.rev # Nil =>
        IF answered.kind \in Unauthorized \cup AccessDenied
        THEN answered.resp.code = CodeOfKind(answered.kind)
        ELSE IF answered.rev = "fasthttp" /\ answered.kind = "validation.Errors"
        THEN answered.resp.code = 422
        ELSE IF answered.rev = "fasthttp" /\ answered.kind = "sql.ErrNoRows"
        THEN answered.resp.code = 404
        ELSE answered.resp.code = 500

C26_Witness ==
    /\ answered.rev = "net/http"
    /\ answered.kind = "InvalidCredentials"
    /\ answered.err.Message = <<"token", "store">>
    /\ answered.resp.code = 403

====
